---- MODULE Spec2Model ----
(***************************************************************************)
(* A model of the review decision pipeline of ai-reviewer:                 *)
(*   - CacheManager (src/src/core/cache.py),                               *)
(*   - CodeReviewer.review_pull_request (src/src/core/reviewer.py),        *)
(*   - DoubleCheckVerifier.verify_issues (src/src/verification/verifier.py)*)
(*                                                                         *)
(* Strings are sequences of one-character strings.  A Python value that    *)
(* may be None is a record with a "tag" field.  Time is counted in days.   *)
(*                                                                         *)
(* The module holds several specifications over the same variables:        *)
(*   SpecCache    the CacheManager operations on one cache directory,      *)
(*   SpecRace     two invocations stepping through them concurrently,      *)
(*   SpecKey      the cache key derivation, on drawn inputs,               *)
(*   Spec         runs of review_pull_request against one cache directory, *)
(*   SpecCollide  the same on changesets with colliding key contents,      *)
(*   SpecBatch    the batch phase of a run,                                *)
(*   SpecExclude  the exclusion decision,                                  *)
(*   SpecVerify   calls of verify_issues,                                  *)
(*   SpecLinter   calls of LinterTool.execute,                             *)
(*   SpecRegistry a ToolRegistry,                                          *)
(*   SpecPlatform clearing and posting on the platform.                    *)
(* Each specification fixes the variables it does not use.                 *)
(***************************************************************************)
EXTENDS Integers, Sequences, FiniteSets, TLC

\* The cache directory and the clock.
VARIABLES
  files,        \* the cache directory: cache key -> content of <key>.json
  now           \* datetime.now(), in days

\* SpecCache: the calls made on the CacheManager.
VARIABLES
  last,         \* the last CacheManager call: its arguments and its outcome
  lastSet,      \* history: per key, the payload and time of the last set
  expiredSeen   \* history: keys a get found expired, and not set since

\* Spec: the CodeReviewer and its run of review_pull_request.
VARIABLES
  enable_verification,  \* CodeReviewer.enable_verification
  batch_size,           \* config.get('batch_size', 7)
  pc,                   \* where the run is
  runs,                 \* runs started so far
  changes,              \* platform.get_changes(pr_id)
  idx,                  \* the change the loop is at (1-based)
  stats,                \* stats
  all_comments,         \* all_comments
  pending_items,        \* pending_items
  chunk_idx,            \* the batch the batch loop is at (1-based)
  calls,                \* the run's calls on its collaborators, in order
  lastChange,           \* history: what the loop did with the last change
  reviewed,             \* history: per key, the last AI review of its file
  answered              \* history: the last answer of review_batch in the run

\* SpecKey: inputs and results of the key derivation.
VARIABLES
  keyIn,        \* two (filepath, diff, version) triples
  keyOut        \* their cache keys, once derived

\* SpecExclude: inputs and results of the exclusion decision.
VARIABLES
  exclIn,       \* the paths of a changeset
  exclOut,      \* the decision of _should_exclude on each, once taken
  exclUtil      \* the decision of file_utils.should_exclude_file on each

\* SpecVerify: a call of DoubleCheckVerifier.verify_issues.
VARIABLES
  v_pc,               \* where the call is
  tools,              \* the names registered in the ToolRegistry
  initial_issues,     \* the argument
  high_severity_issues,
  other_issues,
  v_idx,              \* the high-severity issue the loop is at (1-based)
  verified_issues,
  final_issues,       \* the returned list
  v_language,         \* language, given or detected
  changed_lines,      \* the argument changed_lines, as a set ({} for None)
  evidence,           \* the evidence gathered last
  gathered            \* history: ids of the issues evidence was gathered for

\* SpecLinter: a call of LinterTool.execute.
VARIABLES
  lintIn,       \* the keyword arguments, and what the linter does when run
  lintOut       \* what execute returned or raised, once called

\* SpecRegistry: a ToolRegistry.
VARIABLES
  reg_tools,    \* self._tools: tool name -> tool
  reg_last      \* history: the last call of execute_tool and its outcome

\* SpecPlatform: the change request on the platform.
VARIABLES
  thread,       \* the comments on the change request
  p_pc,         \* where the run is among its calls on the platform
  p_run         \* the run, and history of its calls

\* SpecRace: two invocations on one cache directory.
VARIABLES
  r_pc,         \* per invocation: where it is in its CacheManager call
  r_loc,        \* per invocation: the locals of the call
  r_out,        \* per invocation: what its last call returned or raised
  r_calls,      \* per invocation: the calls made
  r_size,       \* the length of the text of the entry's file
  r_sets        \* history: the sets completed and the clear_expired removals

cacheVars == <<files, now>>
cacheHist == <<last, lastSet, expiredSeen>>
runVars == <<enable_verification, batch_size, pc, runs, changes, idx, stats, all_comments,
             pending_items, chunk_idx, calls, lastChange, reviewed, answered>>
keyVars == <<keyIn, keyOut>>
exclVars == <<exclIn, exclOut, exclUtil>>
verifyVars == <<v_pc, tools, initial_issues, high_severity_issues, other_issues,
               v_idx, verified_issues, final_issues, v_language,
               changed_lines, evidence, gathered>>
lintVars == <<lintIn, lintOut>>
regVars == <<reg_tools, reg_last>>
platVars == <<thread, p_pc, p_run>>
raceVars == <<r_pc, r_loc, r_out, r_calls, r_size, r_sets>>
moreVars == <<lintVars, regVars, platVars, raceVars>>
vars == <<cacheVars, cacheHist, runVars, keyVars, exclVars, verifyVars, moreVars>>

\* ------------------------------------------------------------------------
\* Bounds of the model
\* ------------------------------------------------------------------------

\* ttl_days of the CacheManager under test (a constructor argument).
TtlDays == 1

\* The clock stops here.
MaxTime == 2

\* ------------------------------------------------------------------------
\* Values
\* ------------------------------------------------------------------------

\* Python's None and a returned value.
None == [tag |-> "none", items |-> <<>>]
Some(v) == [tag |-> "value", items |-> v]

\* The 'timestamp' member of a cache file's object: missing, an ISO-8601
\* string for time t, a string that is no ISO-8601 time, or not a string.
NoTs == [tag |-> "absent", t |-> 0]
IsoTs(t) == [tag |-> "iso", t |-> t]
BadTs == [tag |-> "badstr", t |-> 0]
NonStrTs == [tag |-> "nonstr", t |-> 0]

\* datetime.isoformat() and datetime.fromisoformat(): the second is defined
\* on the strings the first produces and raises ValueError (TypeError for a
\* value that is no string) on the others.
isoformat(t) == IsoTs(t)
fromisoformat(ts) ==
  CASE ts.tag = "iso" -> [exc |-> "none", t |-> ts.t]
    [] ts.tag = "badstr" -> [exc |-> "ValueError", t |-> 0]
    [] OTHER -> [exc |-> "TypeError", t |-> 0]

\* The 'review' member of a cache file's object.
NoReview == [tag |-> "absent", items |-> <<>>]
ReviewOf(p) == [tag |-> "list", items |-> p]

\* The text of a cache file, by what json.loads makes of it: no JSON at
\* all, a JSON list, a JSON scalar (number, null, boolean), or a JSON object
\* with its members.
NotJson == [kind |-> "notjson", ts |-> NoTs, review |-> NoReview]
JsonList == [kind |-> "list", ts |-> NoTs, review |-> NoReview]
JsonScalar == [kind |-> "scalar", ts |-> NoTs, review |-> NoReview]
JsonObject(ts, review) == [kind |-> "object", ts |-> ts, review |-> review]
\* No file.
Absent == [kind |-> "absent", ts |-> NoTs, review |-> NoReview]

\* json.dumps of the dict that set builds: comments are JSON-native values
\* (strings, integers, booleans), which json.loads gives back as they were.
json_dumps(timestamp, review_data) == JsonObject(timestamp, ReviewOf(review_data))

ReadFile(fs, k) == IF k \in DOMAIN fs THEN fs[k] ELSE Absent
Unlink(fs, k) == [x \in DOMAIN fs \ {k} |-> fs[x]]
WriteText(fs, k, c) == [x \in DOMAIN fs \cup {k} |-> IF x = k THEN c ELSE fs[x]]

\* ------------------------------------------------------------------------
\* CacheManager
\* ------------------------------------------------------------------------

\* datetime.now() - cached_time > timedelta(days=self.ttl_days)
ExpiredMutantAtTtl(t, cached_time) == t - cached_time >= TtlDays
Expired(t, cached_time) == t - cached_time > TtlDays

\* data.get('review')
DataGetReview(c) == IF c.review.tag = "list" THEN Some(c.review.items) ELSE None

\* CacheManager.get on directory fs at time t: what it returns (or the
\* exception it lets through) and the directory it leaves.
cache_get_KeepsExpired(fs, cache_key, t) ==
  LET c == ReadFile(fs, cache_key)
      hit == [exc |-> "none", ret |-> DataGetReview(c), files |-> fs]
      miss == [exc |-> "none", ret |-> None, files |-> fs]
      raise(e) == [exc |-> e, ret |-> None, files |-> fs]
  IN  CASE c.kind = "absent" -> miss
        [] c.kind = "notjson" -> [miss EXCEPT !.files = Unlink(fs, cache_key)]
        [] c.kind = "scalar" -> raise("TypeError")
        [] c.kind = "list" -> raise("AttributeError")
        [] OTHER ->
             IF c.ts.tag = "absent" THEN hit
             ELSE LET parsed == fromisoformat(c.ts) IN
                  IF parsed.exc # "none" THEN raise(parsed.exc)
                  ELSE IF Expired(t, parsed.t) THEN miss
                  ELSE hit

cache_get(fs, cache_key, t) ==
  LET c == ReadFile(fs, cache_key)
      hit == [exc |-> "none", ret |-> DataGetReview(c), files |-> fs]
      miss == [exc |-> "none", ret |-> None, files |-> fs]
      unlinked == [miss EXCEPT !.files = Unlink(fs, cache_key)]
      raise(e) == [exc |-> e, ret |-> None, files |-> fs]
  IN  CASE c.kind = "absent" -> miss                  \* not cache_file.exists()
        [] c.kind = "notjson" -> unlinked             \* except JSONDecodeError
        [] c.kind = "scalar" -> raise("TypeError")    \* 'timestamp' in 5
        [] c.kind = "list" -> raise("AttributeError") \* [].get('review')
        [] OTHER ->
             IF c.ts.tag = "absent" THEN hit
             ELSE LET parsed == fromisoformat(c.ts) IN
                  IF parsed.exc # "none" THEN raise(parsed.exc)
                  ELSE IF Expired(t, parsed.t) THEN unlinked
                  ELSE hit

\* CacheManager.set: the directory after the write.
cache_set(fs, cache_key, review_data, t) ==
  WriteText(fs, cache_key, json_dumps(isoformat(t), review_data))

\* CacheManager.clear
cache_clear(fs) == [x \in {} |-> Absent]

\* CacheManager.clear_expired: whether it unlinks the file with content c.
ClearExpiredRemoves(c, t) ==
  CASE c.kind = "notjson" -> TRUE                     \* except Exception
    [] c.kind = "scalar" -> TRUE                      \* TypeError, caught
    [] c.kind = "list" -> FALSE                       \* 'timestamp' in [] is False
    [] OTHER ->
         IF c.ts.tag = "absent" THEN FALSE
         ELSE LET parsed == fromisoformat(c.ts) IN
              IF parsed.exc # "none" THEN TRUE
              ELSE Expired(t, parsed.t)

cache_clear_expired(fs, t) ==
  LET gone == {k \in DOMAIN fs : ClearExpiredRemoves(fs[k], t)}
  IN  [removed |-> Cardinality(gone),
       files |-> [x \in DOMAIN fs \ gone |-> fs[x]]]

\* ------------------------------------------------------------------------
\* Strings
\* ------------------------------------------------------------------------

\* The size ceiling of a diff: len(diff) > 10000.
MAX_DIFF_LEN == 10000

\* The element "#" of a string stands for a block of BlockLen filler
\* characters that occur nowhere else, so that a diff can be as long as the
\* size ceiling; every other element is one character.
BlockLen == MAX_DIFF_LEN - 1

RECURSIVE StrLen(_)
StrLen(s) ==
  IF s = <<>> THEN 0
  ELSE (IF Head(s) = "#" THEN BlockLen ELSE 1) + StrLen(Tail(s))

StartsWith(s, prefix) ==
  /\ Len(prefix) <= Len(s)
  /\ SubSeq(s, 1, Len(prefix)) = prefix

EndsWith(s, suffix) ==
  /\ Len(suffix) <= Len(s)
  /\ SubSeq(s, Len(s) - Len(suffix) + 1, Len(s)) = suffix

\* needle in s
Contains(s, needle) ==
  \E i \in 1..(Len(s) - Len(needle) + 1) : SubSeq(s, i, i + Len(needle) - 1) = needle

\* s.rfind(ch) + 1: the last place of ch in s, 0 when there is none.
RFind(s, ch) ==
  LET at == {i \in 1..Len(s) : s[i] = ch}
  IN  IF at = {} THEN 0 ELSE CHOOSE i \in at : \A j \in at : j <= i

\* filepath.split('/')[-1], which is Path(filepath).name for the paths of a
\* changeset (none ends in a slash).
Filename(filepath) == SubSeq(filepath, RFind(filepath, "/") + 1, Len(filepath))

\* Path(filepath).suffix
Suffix(filepath) ==
  LET name == Filename(filepath)
      i == RFind(name, ".")
  IN  IF 1 < i /\ i < Len(name) THEN SubSeq(name, i, Len(name)) ELSE <<>>

\* str.lower(), on the letters of the model.
Lower(s) ==
  [i \in DOMAIN s |->
     CASE s[i] = "P" -> "p" [] s[i] = "Y" -> "y" [] s[i] = "K" -> "k"
       [] s[i] = "T" -> "t" [] OTHER -> s[i]]

\* fnmatch.fnmatch(name, pattern) for patterns of literals, "*" and "?".
RECURSIVE fnmatch(_, _)
fnmatch(name, pattern) ==
  IF pattern = <<>> THEN name = <<>>
  ELSE IF Head(pattern) = "*"
       THEN \/ fnmatch(name, Tail(pattern))
            \/ (name # <<>> /\ fnmatch(Tail(name), pattern))
  ELSE /\ name # <<>>
       /\ (Head(pattern) = "?" \/ Head(pattern) = Head(name))
       /\ fnmatch(Tail(name), Tail(pattern))

\* ------------------------------------------------------------------------
\* Cache keys
\* ------------------------------------------------------------------------

\* The pipeline-version tags of review_pull_request.
V6_LINTER_FIRST == <<"v", "6", "-", "l", "i", "n", "t", "e", "r", "-", "f", "i", "r", "s", "t">>
V3 == <<"v", "3">>

\* hashlib.md5(content.encode()).hexdigest(): a digest, taken to be
\* collision-free, so a key is its content under a tag.
get_cache_key(content) == [md5 |-> content]

\* f"{filepath}:{diff}:{cache_version}"
KeyContentWithoutDiff(filepath, diff, cache_version) ==
  filepath \o <<":">> \o cache_version
KeyContent(filepath, diff, cache_version) ==
  filepath \o <<":">> \o diff \o <<":">> \o cache_version

\* ------------------------------------------------------------------------
\* Paths, languages, exclusions
\* ------------------------------------------------------------------------

\* Paths of the model's changesets.
P_APP == <<"a", ".", "p", "y">>
P_DOC == <<"r", ".", "m", "d">>
P_KT == <<"b", ".", "k", "t">>
P_ENV == <<"e", "n", "v", "/", "a", ".", "p", "y">>
P_JS == <<"c", ".", "j", "s">>

\* LanguageDetector.LANGUAGE_MAP, the entries for the model's paths.
LANGUAGE_MAP(ext) ==
  CASE ext = <<".", "p", "y">> -> "python"
    [] ext = <<".", "j", "s">> -> "javascript"
    [] ext = <<".", "k", "t">> -> "kotlin"
    [] OTHER -> "None"

\* LanguageDetector.detect_language; "None" is Python's None.
detect_language(filepath) == LANGUAGE_MAP(Lower(Suffix(filepath)))

\* The keys of LinterTool.LINTER_COMMANDS.
LINTER_COMMANDS ==
  {"python", "javascript", "typescript", "dart", "go", "rust", "java", "php"}

\* config.get_exclusions() of the configuration under test: entries of
\* ConfigLoader.DEFAULT_CONFIG and, among the patterns, one that names a
\* directory ("lib/*").
ExclDirectories == {<<"e", "n", "v">>, <<"b", "i", "n">>}
ExclPrefixes == {<<"t", "e", "s", "t", "_">>}
ExclPatterns == {<<"*", ".", "o">>, <<"*", ".", "s", "o">>,
                 <<"y", "a", "r", "n", ".", "l", "o", "c", "k">>,
                 <<"l", "i", "b", "/", "*">>}

CONFIG_PREFIX ==
  <<".", "a", "i", "-", "r", "e", "v", "i", "e", "w", "-", "c", "o", "n", "f", "i", "g">>
CONFIG_SUFFIX == <<".", "j", "s", "o", "n">>

\* CodeReviewer._matches_pattern
matches_pattern_FullPathOnly(filepath, pattern) == fnmatch(filepath, pattern)
matches_pattern(filepath, pattern) ==
  fnmatch(Filename(filepath), pattern) \/ fnmatch(filepath, pattern)

\* CodeReviewer._should_exclude
should_exclude(filepath) ==
  LET filename == Filename(filepath) IN
  \/ (StartsWith(filename, CONFIG_PREFIX) /\ EndsWith(filename, CONFIG_SUFFIX))
  \/ \E excluded_dir \in ExclDirectories : Contains(filepath, excluded_dir)
  \/ \E prefix \in ExclPrefixes : StartsWith(filename, prefix)
  \/ \E pattern \in ExclPatterns : matches_pattern(filepath, pattern)

\* ------------------------------------------------------------------------
\* Comments
\* ------------------------------------------------------------------------

\* A review comment: the AI's record, plus the field the Verifier adds
\* ("unset" while the record has no linter_confirmed member).
MkComment(filepath, line, severity) ==
  [filepath |-> filepath, line |-> line, severity |-> severity,
   linter_confirmed |-> "unset"]

\* ------------------------------------------------------------------------
\* SpecCache: the CacheManager operations on one cache directory
\* ------------------------------------------------------------------------

CacheKeys == {get_cache_key(KeyContent(P_APP, <<"+">>, V3)),
              get_cache_key(KeyContent(P_DOC, <<"+">>, V3))}

Payloads == {<<>>,
             <<MkComment(P_APP, 1, "critical")>>,
             <<MkComment(P_APP, 2, "minor"), MkComment(P_APP, 1, "critical")>>}

\* What another writer can leave in the directory: an entry written by an
\* older version (no timestamp, or no review), and the malformed files.
ForeignContents ==
  {NotJson, JsonList, JsonScalar,
   JsonObject(BadTs, ReviewOf(<<>>)),
   JsonObject(NonStrTs, ReviewOf(<<>>)),
   JsonObject(IsoTs(0), NoReview),
   JsonObject(NoTs, NoReview),
   JsonObject(NoTs, ReviewOf(<<MkComment(P_APP, 1, "critical")>>))}

NoSet == [tag |-> "none", items |-> <<>>, t |-> 0]
NoCall == [op |-> "none", key |-> get_cache_key(<<>>), t |-> 0, exc |-> "none",
           ret |-> None, pre |-> Absent, removed |-> 0]

Get(k) ==
  LET r == cache_get(files, k, now) IN
  /\ files' = r.files
  /\ last' = [op |-> "get", key |-> k, t |-> now, exc |-> r.exc, ret |-> r.ret,
              pre |-> ReadFile(files, k), removed |-> 0]
  /\ expiredSeen' =
       IF /\ ReadFile(files, k).kind = "object"
          /\ ReadFile(files, k).ts.tag = "iso"
          /\ now - ReadFile(files, k).ts.t > TtlDays
       THEN expiredSeen \cup {k} ELSE expiredSeen
  /\ UNCHANGED <<now, lastSet, runVars, keyVars, moreVars, exclVars, verifyVars>>

Set(k, p) ==
  /\ files' = cache_set(files, k, p, now)
  /\ last' = [NoCall EXCEPT !.op = "set", !.key = k, !.t = now,
                            !.pre = ReadFile(files, k)]
  /\ lastSet' = [lastSet EXCEPT ![k] = [tag |-> "set", items |-> p, t |-> now]]
  /\ expiredSeen' = expiredSeen \ {k}
  /\ UNCHANGED <<now, runVars, keyVars, moreVars, exclVars, verifyVars>>

Clear ==
  /\ files' = cache_clear(files)
  /\ last' = [NoCall EXCEPT !.op = "clear", !.t = now]
  /\ lastSet' = [k \in CacheKeys |-> NoSet]
  /\ UNCHANGED <<now, expiredSeen, runVars, keyVars, moreVars, exclVars, verifyVars>>

ClearExpired ==
  LET r == cache_clear_expired(files, now) IN
  /\ files' = r.files
  /\ last' = [NoCall EXCEPT !.op = "clear_expired", !.t = now,
                            !.removed = r.removed]
  /\ UNCHANGED <<now, lastSet, expiredSeen, runVars, keyVars, moreVars, exclVars, verifyVars>>

\* Another program writes a file into the cache directory.
ForeignWrite(k, c) ==
  /\ files' = WriteText(files, k, c)
  /\ last' = [NoCall EXCEPT !.op = "foreign", !.key = k, !.t = now]
  /\ lastSet' = [lastSet EXCEPT ![k] = NoSet]
  /\ expiredSeen' = expiredSeen \ {k}
  /\ UNCHANGED <<now, runVars, keyVars, moreVars, exclVars, verifyVars>>

\* Time passes between two calls.
Tick ==
  /\ now < MaxTime
  /\ now' = now + 1
  /\ UNCHANGED <<files, cacheHist, runVars, keyVars, moreVars, exclVars, verifyVars>>

\* ------------------------------------------------------------------------
\* Spec: runs of CodeReviewer.review_pull_request
\* ------------------------------------------------------------------------

\* Changes per changeset, runs per behaviour, comments per AI answer.
MaxChanges == 2
MaxRuns == 2
MaxAIComments == 2

\* batch_size of the configuration under test in Spec.
BatchSize == 1

D_SMALL == <<"+", "x">>
D_CEILING == <<"#", "+">>
D_OVER == <<"#", "+", "x">>
\* A diff and a path with the separator of the key content in them: the
\* changes (P_APP, D_COLON) and (P_APP_COLON, D_SMALL) have one key content.
D_COLON == <<":", "+", "x">>
P_APP_COLON == P_APP \o <<":">>

MkChange(filepath, diff, binary) ==
  [filepath |-> filepath, diff |-> diff, binary |-> binary]

ChangePool ==
  {MkChange(P_APP, D_SMALL, FALSE), MkChange(P_APP, D_CEILING, FALSE),
   MkChange(P_APP, D_OVER, FALSE), MkChange(P_APP, D_SMALL, TRUE),
   MkChange(P_DOC, D_SMALL, FALSE), MkChange(P_KT, D_SMALL, FALSE),
   MkChange(P_ENV, D_SMALL, FALSE)}

\* platform.get_changes: a changeset lists each file once.
ChangeSets ==
  {cs \in UNION {[1..n -> ChangePool] : n \in 0..MaxChanges} :
     \A i, j \in DOMAIN cs : cs[i].filepath = cs[j].filepath => i = j}

\* What ai_provider.review_batch can answer.
AIPool == {MkComment(P_APP, 1, "critical"), MkComment(P_KT, 1, "minor")}
AIResponses == UNION {[1..n -> AIPool] : n \in 0..MaxAIComments}

ZeroStats == [files_reviewed |-> 0, files_skipped |-> 0, files_excluded |-> 0,
              total_comments |-> 0, cache_hits |-> 0]

Call(op, paths) == [op |-> op, paths |-> paths]

\* History: the last answer of review_batch in the run, the batch it was
\* given for, and the length of all_comments before it was distributed.
NoAnswer == [tag |-> "none", chunk |-> <<>>, comments |-> <<>>, before |-> 0]

NoChange == [outcome |-> "none", filepath |-> <<>>, key |-> get_cache_key(<<>>),
             comments |-> <<>>, run |-> 0]

\* "v6-linter-first" if self.enable_verification else "v3"
cache_version == IF enable_verification THEN V6_LINTER_FIRST ELSE V3

\* The cache key review_pull_request derives for a change.
ChangeKey(change) ==
  get_cache_key(KeyContent(change.filepath, change.diff, cache_version))

\* History: what the loop did with a change, in which run, and the comments
\* it took from the cache.
Handled(outcome, change, comments) ==
  [outcome |-> outcome, filepath |-> change.filepath, key |-> ChangeKey(change),
   comments |-> comments, run |-> runs]

\* LinterTool.execute as review_pull_request calls it, with the language
\* detect_language gave: the ToolResults it can return, or the exception
\* it lets through.  kwargs.get("language", "") is None for a file of no
\* known language, and None.lower() raises AttributeError.
NoLinterResults == [tag |-> "none", filtered_issues |-> 0]
LinterData(n) == [tag |-> "data", filtered_issues |-> n]
ToolFailure == [exc |-> "none", success |-> FALSE, data |-> NoLinterResults]
ToolSuccess(data) == [exc |-> "none", success |-> TRUE, data |-> data]
ToolRaises(e) == [exc |-> e, success |-> FALSE, data |-> NoLinterResults]

linter_execute(language) ==
  IF language = "None" THEN {ToolRaises("AttributeError")}
  ELSE IF language \notin LINTER_COMMANDS THEN {ToolFailure}
  ELSE {ToolFailure,                      \* not installed, or the run failed
        ToolSuccess(LinterData(0)), ToolSuccess(LinterData(1))}

\* range(0, total, step), as the sequence of its values.
RangeStarts(total, step) ==
  [n \in 1..Cardinality({i \in 0..(total - 1) : i % step = 0}) |-> (n - 1) * step]

\* items[i:j], for 0 <= i <= j.
Slice(items, i, j) == SubSeq(items, i + 1, IF j < Len(items) THEN j ELSE Len(items))

\* The batches: [pending_items[i:i + batch_size] for i in range(0, total, batch_size)]
ChunksOf_FullOnly(items, size) ==
  [n \in 1..(Len(items) \div size) |-> Slice(items, (n - 1) * size, n * size)]
ChunksOf(items, size) ==
  LET starts == RangeStarts(Len(items), size)
  IN  [n \in DOMAIN starts |-> Slice(items, starts[n], starts[n] + size)]
NumChunks(total) == Len(RangeStarts(total, batch_size))
Chunk(items, n) == ChunksOf(items, batch_size)[n]

\* Where the run goes once the loop over the changes has dealt with change i.
AfterChange(i, pending) ==
  IF i < Len(changes) THEN "loop"
  ELSE IF pending # <<>> THEN "batch" ELSE "clear"

Between == pc \in {"idle", "returned", "raised"}

\* review_pull_request is called: get_changes, and the run's empty state.
StartRun(cs) ==
  /\ Between
  /\ runs < MaxRuns
  /\ runs' = runs + 1
  /\ changes' = cs
  /\ idx' = 1
  /\ stats' = ZeroStats
  /\ all_comments' = <<>>
  /\ pending_items' = <<>>
  /\ chunk_idx' = 1
  /\ calls' = <<>>
  /\ lastChange' = NoChange
  /\ answered' = NoAnswer
  /\ pc' = IF cs = <<>> THEN "clear" ELSE "loop"
  /\ UNCHANGED <<files, now, enable_verification, batch_size, reviewed,
                 cacheHist, keyVars, moreVars, exclVars, verifyVars>>

\* Time passes between two runs.
TimePasses ==
  /\ pc \in {"returned", "raised"}
  /\ now < MaxTime
  /\ now' = now + 1
  /\ UNCHANGED <<files, enable_verification, batch_size, pc, runs, answered, changes, idx, stats,
                 all_comments, pending_items, chunk_idx, calls, lastChange,
                 reviewed, cacheHist, keyVars, moreVars, exclVars, verifyVars>>

\* Between two runs another program leaves a file in the cache directory in
\* place of an entry: a truncated one, or one written with another
\* timestamp format.
DamagedContents == {NotJson, JsonObject(BadTs, ReviewOf(<<>>))}

EntryDamaged(k, c) ==
  /\ pc \in {"returned", "raised"}
  /\ runs < MaxRuns
  /\ k \in DOMAIN files
  /\ files[k] \notin DamagedContents
  /\ files' = WriteText(files, k, c)
  /\ reviewed' = [x \in DOMAIN reviewed \ {k} |-> reviewed[x]]
  /\ UNCHANGED <<now, enable_verification, batch_size, pc, runs, answered, changes, idx, stats,
                 all_comments, pending_items, chunk_idx, calls, lastChange,
                 cacheHist, keyVars, moreVars, exclVars, verifyVars>>

InLoop == pc = "loop" /\ idx <= Len(changes)
IsExcluded(change) == should_exclude(change.filepath)
IsSkipped_BinaryOnly(change) == change.binary
IsSkipped(change) == change.binary \/ StrLen(change.diff) > MAX_DIFF_LEN

\* The loop body for a change whose path is excluded.
LoopExclude ==
  /\ InLoop
  /\ IsExcluded(changes[idx])
  /\ stats' = [stats EXCEPT !.files_excluded = @ + 1]
  /\ lastChange' = Handled("excluded", changes[idx], <<>>)
  /\ idx' = idx + 1
  /\ pc' = AfterChange(idx, pending_items)
  /\ UNCHANGED <<files, now, enable_verification, batch_size, runs, answered, changes, all_comments,
                 pending_items, chunk_idx, calls, reviewed,
                 cacheHist, keyVars, moreVars, exclVars, verifyVars>>

\* The loop body for a binary or oversized change.
LoopSkip ==
  /\ InLoop
  /\ ~IsExcluded(changes[idx])
  /\ IsSkipped(changes[idx])
  /\ stats' = [stats EXCEPT !.files_skipped = @ + 1]
  /\ lastChange' = Handled("skipped", changes[idx], <<>>)
  /\ idx' = idx + 1
  /\ pc' = AfterChange(idx, pending_items)
  /\ UNCHANGED <<files, now, enable_verification, batch_size, runs, answered, changes, all_comments,
                 pending_items, chunk_idx, calls, reviewed,
                 cacheHist, keyVars, moreVars, exclVars, verifyVars>>

Eligible(change) == ~IsExcluded(change) /\ ~IsSkipped(change)
Lookup(change) == cache_get(files, ChangeKey(change), now)
\* if cached: None and the empty list are both false.
Truthy(ret) == ret.tag = "value" /\ ret.items # <<>>

\* The loop body when self.cache.get raises: the exception leaves
\* review_pull_request.
LoopCacheRaises ==
  /\ InLoop
  /\ Eligible(changes[idx])
  /\ Lookup(changes[idx]).exc # "none"
  /\ files' = Lookup(changes[idx]).files
  /\ calls' = Append(calls, Call("cache_get", {changes[idx].filepath}))
  /\ lastChange' = Handled("raised", changes[idx], <<>>)
  /\ pc' = "raised"
  /\ UNCHANGED <<now, enable_verification, batch_size, runs, answered, changes, idx, stats,
                 all_comments, pending_items, chunk_idx, reviewed,
                 cacheHist, keyVars, moreVars, exclVars, verifyVars>>

\* The loop body on a cache hit.
LoopCacheHit ==
  /\ InLoop
  /\ Eligible(changes[idx])
  /\ Lookup(changes[idx]).exc = "none"
  /\ Truthy(Lookup(changes[idx]).ret)
  /\ LET cached == Lookup(changes[idx]).ret.items IN
     /\ all_comments' = all_comments \o cached
     /\ stats' = [stats EXCEPT !.total_comments = @ + Len(cached),
                               !.files_reviewed = @ + 1,
                               !.cache_hits = @ + 1]
     /\ lastChange' = Handled("hit", changes[idx], cached)
  /\ files' = Lookup(changes[idx]).files
  /\ calls' = Append(calls, Call("cache_get", {changes[idx].filepath}))
  /\ idx' = idx + 1
  /\ pc' = AfterChange(idx, pending_items)
  /\ UNCHANGED <<now, enable_verification, batch_size, runs, answered, changes, pending_items,
                 chunk_idx, reviewed, cacheHist, keyVars, moreVars, exclVars, verifyVars>>

\* pending_items.append({...})
PendingItem(change, linter_results) ==
  [filepath |-> change.filepath, diff |-> change.diff,
   linter_results |-> linter_results, cache_key |-> ChangeKey(change)]

\* The loop body on a cache miss: the linter pre-pass, then the item is
\* deferred to a batch.
LoopCacheMiss ==
  /\ InLoop
  /\ Eligible(changes[idx])
  /\ Lookup(changes[idx]).exc = "none"
  /\ ~Truthy(Lookup(changes[idx]).ret)
  /\ files' = Lookup(changes[idx]).files
  /\ LET change == changes[idx]
         language == detect_language(change.filepath)
         looked == Append(calls, Call("cache_get", {change.filepath}))
     IN
     IF enable_verification
     THEN \E result \in linter_execute(language) :
            /\ calls' = Append(looked, Call("run_linter", {change.filepath}))
            /\ IF result.exc # "none"
               THEN /\ pc' = "raised"
                    /\ lastChange' = Handled("raised", change, <<>>)
                    /\ UNCHANGED <<idx, pending_items>>
               ELSE /\ pending_items' = Append(pending_items,
                         PendingItem(change,
                           IF result.success THEN result.data ELSE NoLinterResults))
                    /\ lastChange' = Handled("miss", change, <<>>)
                    /\ idx' = idx + 1
                    /\ pc' = AfterChange(idx, pending_items')
     ELSE /\ calls' = looked
          /\ pending_items' = Append(pending_items,
                                     PendingItem(change, NoLinterResults))
          /\ lastChange' = Handled("miss", change, <<>>)
          /\ idx' = idx + 1
          /\ pc' = AfterChange(idx, pending_items')
  /\ UNCHANGED <<now, enable_verification, batch_size, runs, answered, changes, stats, all_comments,
                 chunk_idx, reviewed, cacheHist, keyVars, moreVars, exclVars, verifyVars>>

\* comments_by_file.get(fp, [])
CommentsOf(comments, fp) == SelectSeq(comments, LAMBDA c : c.filepath = fp)

NotReviewed == [tag |-> "none", comments |-> <<>>, t |-> 0, run |-> 0]
ReviewedAt(rv, k) == IF k \in DOMAIN rv THEN rv[k] ELSE NotReviewed

\* "for item in chunk": the cache writes and the counts of one batch, from
\* acc = [files, all_comments, stats, calls, reviewed].
RECURSIVE Distribute_CountsCommentedOnly(_, _, _)
Distribute_CountsCommentedOnly(acc, chunk, comments) ==
  IF chunk = <<>> THEN acc
  ELSE LET item == Head(chunk)
           file_comments == CommentsOf(comments, item.filepath)
           written == file_comments # <<>>
           next ==
             [files |-> IF written
                        THEN cache_set(acc.files, item.cache_key, file_comments, now)
                        ELSE acc.files,
              all_comments |-> acc.all_comments \o file_comments,
              stats |-> [acc.stats EXCEPT
                           !.total_comments = @ + Len(file_comments),
                           !.files_reviewed = IF written THEN @ + 1 ELSE @],
              calls |-> IF written
                        THEN Append(acc.calls, Call("cache_set", {item.filepath}))
                        ELSE acc.calls,
              reviewed |->
                [k \in DOMAIN acc.reviewed \cup {item.cache_key} |->
                   IF k = item.cache_key
                   THEN [tag |-> "some", comments |-> file_comments,
                         t |-> now, run |-> runs]
                   ELSE acc.reviewed[k]]]
       IN  Distribute_CountsCommentedOnly(next, Tail(chunk), comments)

RECURSIVE Distribute(_, _, _)
Distribute(acc, chunk, comments) ==
  IF chunk = <<>> THEN acc
  ELSE LET item == Head(chunk)
           file_comments == CommentsOf(comments, item.filepath)
           written == file_comments # <<>>
           next ==
             [files |-> IF written
                        THEN cache_set(acc.files, item.cache_key, file_comments, now)
                        ELSE acc.files,
              all_comments |-> acc.all_comments \o file_comments,
              stats |-> [acc.stats EXCEPT
                           !.total_comments = @ + Len(file_comments),
                           !.files_reviewed = @ + 1],
              calls |-> IF written
                        THEN Append(acc.calls, Call("cache_set", {item.filepath}))
                        ELSE acc.calls,
              reviewed |->
                [k \in DOMAIN acc.reviewed \cup {item.cache_key} |->
                   IF k = item.cache_key
                   THEN [tag |-> "some", comments |-> file_comments,
                         t |-> now, run |-> runs]
                   ELSE acc.reviewed[k]]]
       IN  Distribute(next, Tail(chunk), comments)

\* One batch: build_batch_context, review_batch, and the comments mapped
\* back to the files of the batch.
ReviewBatch ==
  /\ pc = "batch"
  /\ chunk_idx <= NumChunks(Len(pending_items))
  /\ \E comments \in AIResponses :
       LET chunk == Chunk(pending_items, chunk_idx)
           asked == Append(calls,
                      Call("review_batch",
                           {chunk[i].filepath : i \in DOMAIN chunk}))
           done == Distribute([files |-> files, all_comments |-> all_comments,
                               stats |-> stats, calls |-> asked,
                               reviewed |-> reviewed], chunk, comments)
       IN  /\ files' = done.files
           /\ all_comments' = done.all_comments
           /\ stats' = done.stats
           /\ calls' = done.calls
           /\ reviewed' = done.reviewed
           /\ answered' = [tag |-> "some", chunk |-> chunk, comments |-> comments,
                           before |-> Len(all_comments)]
  /\ chunk_idx' = chunk_idx + 1
  /\ pc' = IF chunk_idx < NumChunks(Len(pending_items)) THEN "batch" ELSE "clear"
  /\ UNCHANGED <<now, enable_verification, batch_size, runs, changes, idx, pending_items,
                 lastChange, cacheHist, keyVars, moreVars, exclVars, verifyVars>>

\* self.platform.clear_bot_comments(pr_id)
ClearBotCommentsForgotten ==
  /\ pc = "clear"
  /\ pc' = "post"
  /\ UNCHANGED <<files, now, enable_verification, batch_size, runs, answered, changes, idx, stats,
                 all_comments, pending_items, chunk_idx, calls, lastChange,
                 reviewed, cacheHist, keyVars, moreVars, exclVars, verifyVars>>

ClearBotComments ==
  /\ pc = "clear"
  /\ calls' = Append(calls, Call("clear_bot_comments", {}))
  /\ pc' = "post"
  /\ UNCHANGED <<files, now, enable_verification, batch_size, runs, answered, changes, idx, stats,
                 all_comments, pending_items, chunk_idx, lastChange,
                 reviewed, cacheHist, keyVars, moreVars, exclVars, verifyVars>>

\* if all_comments: self.platform.post_comments(pr_id, all_comments)
PostComments ==
  /\ pc = "post"
  /\ calls' = IF all_comments # <<>>
              THEN Append(calls,
                     Call("post_comments",
                          {all_comments[i].filepath : i \in DOMAIN all_comments}))
              ELSE calls
  /\ pc' = "summary"
  /\ UNCHANGED <<files, now, enable_verification, batch_size, runs, answered, changes, idx, stats,
                 all_comments, pending_items, chunk_idx, lastChange,
                 reviewed, cacheHist, keyVars, moreVars, exclVars, verifyVars>>

\* self.platform.post_summary(pr_id, stats, all_comments); return stats
PostSummary ==
  /\ pc = "summary"
  /\ calls' = Append(calls, Call("post_summary", {}))
  /\ pc' = "returned"
  /\ UNCHANGED <<files, now, enable_verification, batch_size, runs, answered, changes, idx, stats,
                 all_comments, pending_items, chunk_idx, lastChange,
                 reviewed, cacheHist, keyVars, moreVars, exclVars, verifyVars>>

\* ------------------------------------------------------------------------
\* SpecKey: the cache key of a (filepath, diff, version) triple
\* ------------------------------------------------------------------------

\* The longest filepath and diff drawn.
MaxKeyStrLen == 2

KeyStrings == UNION {[1..n -> {"a", ":"}] : n \in 0..MaxKeyStrLen}
KeyTriples == [filepath : KeyStrings, diff : KeyStrings,
               version : {V6_LINTER_FIRST, V3}]
NoTriples == [a |-> [filepath |-> <<>>, diff |-> <<>>, version |-> V3],
              b |-> [filepath |-> <<>>, diff |-> <<>>, version |-> V3]]

\* The key review_pull_request derives from a triple.
TripleKey(x) == get_cache_key(KeyContent(x.filepath, x.diff, x.version))

DeriveKeys ==
  /\ keyOut = <<>>
  /\ keyOut' = <<TripleKey(keyIn.a), TripleKey(keyIn.b)>>
  /\ UNCHANGED <<keyIn, cacheVars, cacheHist, runVars, moreVars, exclVars, verifyVars>>


\* ------------------------------------------------------------------------
\* SpecExclude: the exclusion decision on the paths of a changeset
\* ------------------------------------------------------------------------

\* The directories and the file names the paths are drawn from.
PathDirs ==
  {<<>>,
   <<"e", "n", "v", "/">>,
   <<"s", "r", "c", "/">>,
   <<"l", "i", "b", "/">>,
   <<"s", "r", "c", "/", "e", "n", "v", "/">>,
   <<"e", "n", "v", "i", "r", "o", "n", "/">>}
PathNames ==
  {<<"a", ".", "p", "y">>,
   <<"a", ".", "o">>,
   <<"a", ".", "s", "o">>,
   <<"a", ".", "o", "s">>,
   <<"t", "e", "s", "t", "_", "a", ".", "p", "y">>,
   <<"a", "t", "e", "s", "t", "_", ".", "p", "y">>,
   <<"y", "a", "r", "n", ".", "l", "o", "c", "k">>,
   <<"x", "y", "a", "r", "n", ".", "l", "o", "c", "k">>,
   <<"e", "n", "v">>,
   <<".", "a", "i", "-", "r", "e", "v", "i", "e", "w", "-", "c", "o", "n", "f", "i", "g", ".", "j", "s", "o", "n">>,
   <<".", "a", "i", "-", "r", "e", "v", "i", "e", "w", "-", "c", "o", "n", "f", "i", "g", ".", "y", "m", "l">>,
   <<"x", ".", "a", "i", "-", "r", "e", "v", "i", "e", "w", "-", "c", "o", "n", "f", "i", "g", ".", "j", "s", "o", "n">>}
PathPool == {d \o n : d \in PathDirs, n \in PathNames}

\* Path(filepath).parts, for a relative path without empty components: the
\* names between the slashes, the file name included.
RECURSIVE PathParts(_)
PathParts(filepath) ==
  LET at == {i \in 1..Len(filepath) : filepath[i] = "/"}
  IN  IF at = {} THEN {filepath}
      ELSE LET i == CHOOSE x \in at : \A y \in at : x <= y
           IN  {SubSeq(filepath, 1, i - 1)}
                 \cup PathParts(SubSeq(filepath, i + 1, Len(filepath)))

\* file_utils.should_exclude_file, with the exclusions of the same
\* configuration: the first member of the tuple it returns.
should_exclude_file(filepath) ==
  LET filename == Filename(filepath) IN
  \/ \E excluded_dir \in ExclDirectories : excluded_dir \in PathParts(filepath)
  \/ \E prefix \in ExclPrefixes : StartsWith(filename, prefix)
  \/ \E pattern \in ExclPatterns :
       fnmatch(filename, pattern) \/ fnmatch(filepath, pattern)

\* A changeset of two files, and the decisions of _should_exclude and of
\* should_exclude_file on them.
ExcludeScan ==
  /\ exclOut = <<>>
  /\ exclOut' = [i \in DOMAIN exclIn |-> should_exclude(exclIn[i])]
  /\ exclUtil' = [i \in DOMAIN exclIn |-> should_exclude_file(exclIn[i])]
  /\ UNCHANGED <<exclIn, cacheVars, cacheHist, runVars, keyVars, moreVars, verifyVars>>

\* ------------------------------------------------------------------------
\* SpecVerify: DoubleCheckVerifier.verify_issues
\* ------------------------------------------------------------------------

\* The longest issue list drawn.
MaxIssues == 3

\* The most findings on other lines that come before a finding in the
\* linter's output.
MaxOtherFindings == 10

\* self.verify_severities
verify_severities == {"critical", "major"}

\* severity.lower(), on the severities of the model.
LowerSeverity(severity) ==
  CASE severity = "Critical" -> "critical"
    [] severity = "Major" -> "major"
    [] OTHER -> severity

NoLinterEvidence ==
  [tag |-> "none", line |-> 0, severity |-> "", message |-> "", rule |-> ""]

\* An issue of the AI reviewer: id is the identity of the record (its place
\* in the list passed in), refs the number of path-like tokens in its
\* message and suggestion, line 0 an issue without a line.
MkIssue(id, shape) ==
  [id |-> id, line |-> shape.line, severity |-> shape.severity,
   refs |-> shape.refs, linter_confirmed |-> "unset",
   linter_evidence |-> NoLinterEvidence]

IssueShapes ==
  {[severity |-> "critical", line |-> 1, refs |-> 0],
   [severity |-> "Major", line |-> 2, refs |-> 1],
   [severity |-> "minor", line |-> 1, refs |-> 0],
   [severity |-> "critical", line |-> 0, refs |-> 0]}

IssueLists ==
  UNION {{[i \in 1..n |-> MkIssue(i, shapes[i])] : shapes \in [1..n -> IssueShapes]} :
           n \in 0..MaxIssues}

\* The registries drawn: every tool registered, or one of them missing.
ToolNames == {"run_linter", "git_history", "read_file"}
Registries == {ToolNames} \cup {ToolNames \ {name} : name \in ToolNames}

\* A finding of the linter, as LinterTool normalises it.
MkFinding(line, severity, message, rule) ==
  [line |-> line, severity |-> severity, message |-> message, rule |-> rule]

\* What _parse_linter_output can give for a file: short lists, and
FindingLists ==
  {<<>>,
   <<MkFinding(1, "error", "m1", "r1")>>,
   <<MkFinding(2, "warning", "m2", "r2")>>,
   <<MkFinding(2, "warning", "m2", "r2"), MkFinding(1, "error", "m1", "r1")>>,
   <<MkFinding(1, "info", "m3", "r3"), MkFinding(1, "error", "m1", "r1")>>}

\* lists of MaxOtherFindings - 1 and MaxOtherFindings findings on line 2
\* followed by one on line 1.
OtherFindings(k) == [i \in 1..k |-> MkFinding(2, "warning", "m2", "r2")]
LongFindingLists ==
  {OtherFindings(k) \o <<MkFinding(1, "error", "m1", "r1")>> :
     k \in {MaxOtherFindings - 1, MaxOtherFindings}}
ParsedOutputs == FindingLists \cup LongFindingLists

\* The changed_lines a caller passes: None (or []), or the lines of the diff.
ChangedLineSets == {{}, {1}, {1, 2}}

\* "issues": filtered_issues[:10]
LINTER_ISSUE_LIMIT == 10

\* LinterTool.execute, from the parsed output to data['issues']: the filter
\* to the changed lines (none when changed_lines is empty), then the cut.
FilterToChanged(issues, changed) ==
  IF changed # {} THEN SelectSeq(issues, LAMBDA f : f.line \in changed)
  ELSE issues
FirstIssues(filtered_issues) ==
  SubSeq(filtered_issues, 1,
         IF Len(filtered_issues) < LINTER_ISSUE_LIMIT THEN Len(filtered_issues)
         ELSE LINTER_ISSUE_LIMIT)
linter_issues(parsed, changed) == FirstIssues(FilterToChanged(parsed, changed))

\* The evidence dictionary: linter_results is None or the data of a
\* successful run, git_history None or data, related_files the files read.
\* "tried" is history: the sources _gather_evidence called; "parsed" is
\* history: what the linter found in the file before filter and cut.
NoLinterData == [tag |-> "none", issues |-> <<>>]
LinterIssues(found) == [tag |-> "data", issues |-> found]
NoEvidence ==
  [linter_results |-> NoLinterData, git_history |-> "None",
   related_files |-> 0, tried |-> {}, parsed |-> <<>>]

\* Step 1 of _gather_evidence: the linter, when a language is known.
\* A missing tool makes execute_tool raise, which ends the gathering.
AfterLinter(ev, lang, registry, changed) ==
  IF lang = "None" THEN {[ev |-> ev, raised |-> FALSE]}
  ELSE IF "run_linter" \notin registry THEN {[ev |-> ev, raised |-> TRUE]}
  ELSE LET tried == [ev EXCEPT !.tried = @ \cup {"run_linter"}] IN
       {[ev |-> tried, raised |-> FALSE]}
       \cup {[ev |-> [tried EXCEPT
                        !.linter_results = LinterIssues(linter_issues(parsed, changed)),
                        !.parsed = parsed],
              raised |-> FALSE] : parsed \in ParsedOutputs}

\* Step 2: the commit history.
AfterGit(ev, registry) ==
  IF "git_history" \notin registry THEN {[ev |-> ev, raised |-> TRUE]}
  ELSE LET tried == [ev EXCEPT !.tried = @ \cup {"git_history"}] IN
       {[ev |-> tried, raised |-> FALSE],
        [ev |-> [tried EXCEPT !.git_history = "data"], raised |-> FALSE]}

\* Step 3: the related files the issue's text names (the first two).
AfterFiles(ev, issue, registry) ==
  IF issue.refs = 0 THEN {[ev |-> ev, raised |-> FALSE]}
  ELSE IF "read_file" \notin registry THEN {[ev |-> ev, raised |-> TRUE]}
  ELSE LET tried == [ev EXCEPT !.tried = @ \cup {"read_file"}] IN
       {[ev |-> tried, raised |-> FALSE],
        [ev |-> [tried EXCEPT !.related_files = @ + 1], raised |-> FALSE]}

\* DoubleCheckVerifier._gather_evidence: the evidence it can return.  The
\* three steps share one try block: an exception in one skips the rest.
gather_evidence(issue, lang, registry, changed) ==
  LET one == AfterLinter(NoEvidence, lang, registry, changed)
      two == UNION {IF r.raised THEN {r} ELSE AfterGit(r.ev, registry) : r \in one}
      three == UNION {IF r.raised THEN {r} ELSE AfterFiles(r.ev, issue, registry) :
                        r \in two}
  IN  {r.ev : r \in three}

\* DoubleCheckVerifier._check_linter_confirmation: the first finding on the
\* issue's line, or None.
check_linter_confirmation_NearLine(issue, ev) ==
  LET found == ev.linter_results.issues
      near == {i \in DOMAIN found :
                 found[i].line \in {issue.line - 1, issue.line, issue.line + 1}}
  IN  IF ev.linter_results.tag = "none" \/ found = <<>> THEN NoLinterEvidence
      ELSE IF issue.line = 0 THEN NoLinterEvidence
      ELSE IF near = {} THEN NoLinterEvidence
      ELSE LET first == found[CHOOSE i \in near : \A j \in near : i <= j] IN
           [tag |-> "dict", line |-> first.line, severity |-> first.severity,
            message |-> first.message, rule |-> first.rule]

check_linter_confirmation(issue, ev) ==
  LET found == ev.linter_results.issues
      same == {i \in DOMAIN found : found[i].line = issue.line}
  IN  IF ev.linter_results.tag = "none" \/ found = <<>> THEN NoLinterEvidence
      ELSE IF issue.line = 0 THEN NoLinterEvidence
      ELSE IF same = {} THEN NoLinterEvidence
      ELSE LET first == found[CHOOSE i \in same : \A j \in same : i <= j] IN
           [tag |-> "dict", line |-> first.line, severity |-> first.severity,
            message |-> first.message, rule |-> first.rule]

IsHigh(issue) == LowerSeverity(issue.severity) \in verify_severities

\* The triage of verify_issues.
HighSeverityAll(issues) == issues
HighSeverity(issues) == SelectSeq(issues, LAMBDA issue : IsHigh(issue))
OtherSeverity(issues) == SelectSeq(issues, LAMBDA issue : ~IsHigh(issue))

\* final_issues = verified_issues + other_issues
MergeOtherFirst(verified, other) == other \o verified
Merge(verified, other) == verified \o other

\* The two branches of the loop body: the issue is marked and kept.
AppendVerified_DropsUnconfirmed(verified, issue, linter_confirms) ==
  IF linter_confirms.tag # "none"
  THEN Append(verified, [issue EXCEPT !.linter_confirmed = "true",
                                      !.linter_evidence = linter_confirms])
  ELSE verified
AppendVerified_TakesLinterSeverity(verified, issue, linter_confirms) ==
  IF linter_confirms.tag # "none"
  THEN Append(verified, [issue EXCEPT !.linter_confirmed = "true",
                                      !.linter_evidence = linter_confirms,
                                      !.severity = linter_confirms.severity])
  ELSE Append(verified, [issue EXCEPT !.linter_confirmed = "false"])
AppendVerified(verified, issue, linter_confirms) ==
  IF linter_confirms.tag # "none"
  THEN Append(verified, [issue EXCEPT !.linter_confirmed = "true",
                                      !.linter_evidence = linter_confirms])
  ELSE Append(verified, [issue EXCEPT !.linter_confirmed = "false"])

\* verify_issues is called: the triage, and the two early returns.
VerifyCall(registry, issues, filepath, changed) ==
  /\ v_pc = "idle"
  /\ tools' = registry
  /\ initial_issues' = issues
  /\ changed_lines' = changed
  /\ verified_issues' = <<>>
  /\ v_idx' = 1
  /\ gathered' = <<>>
  /\ evidence' = NoEvidence
  /\ IF issues = <<>>
     THEN /\ final_issues' = <<>>
          /\ v_pc' = "done"
          /\ UNCHANGED <<high_severity_issues, other_issues, v_language>>
     ELSE /\ high_severity_issues' = HighSeverity(issues)
          /\ other_issues' = OtherSeverity(issues)
          /\ IF HighSeverity(issues) = <<>>
             THEN /\ final_issues' = issues
                  /\ v_pc' = "done"
                  /\ UNCHANGED v_language
             ELSE /\ v_language' = detect_language(filepath)
                  /\ v_pc' = "verify"
                  /\ UNCHANGED final_issues
  /\ UNCHANGED <<cacheVars, cacheHist, runVars, keyVars, moreVars, exclVars>>

\* One turn of the loop over high_severity_issues.
VerifyIssue ==
  /\ v_pc = "verify"
  /\ v_idx <= Len(high_severity_issues)
  /\ \E ev \in gather_evidence(high_severity_issues[v_idx], v_language, tools,
                               changed_lines) :
       LET issue == high_severity_issues[v_idx]
           linter_confirms == check_linter_confirmation(issue, ev)
       IN  /\ evidence' = ev
           /\ verified_issues' = AppendVerified(verified_issues, issue, linter_confirms)
           /\ gathered' = Append(gathered, issue.id)
  /\ v_idx' = v_idx + 1
  /\ UNCHANGED <<v_pc, tools, initial_issues, high_severity_issues, other_issues,
                 final_issues, v_language, changed_lines,
                 cacheVars, cacheHist, runVars, keyVars, moreVars, exclVars>>

\* The loop is over: the merge, and the return.
VerifyReturn ==
  /\ v_pc = "verify"
  /\ v_idx > Len(high_severity_issues)
  /\ final_issues' = Merge(verified_issues, other_issues)
  /\ v_pc' = "done"
  /\ UNCHANGED <<tools, initial_issues, high_severity_issues, other_issues,
                 v_idx, verified_issues, v_language, changed_lines, evidence,
                 gathered,
                 cacheVars, cacheHist, runVars, keyVars, moreVars, exclVars>>

\* ------------------------------------------------------------------------
\* SpecLinter: LinterTool.execute
\* ------------------------------------------------------------------------

\* A keyword argument that is not passed, or passed as None.
KW_ABSENT == "absent"
KW_NONE == "None"

\* The keyword arguments: filepath and changed_lines carry a tag (KW_ABSENT,
\* KW_NONE, or "value" with the string or the list), language is KW_ABSENT,
\* KW_NONE or the string passed.
MkKwargs(filepath, language, changed) ==
  [filepath |-> filepath, language |-> language, changed_lines |-> changed]
KwValue(v) == [tag |-> "value", val |-> v]
KwMissing(tag) == [tag |-> tag, val |-> <<>>]

\* What the machine does when the linter is probed and run: the probe
\* (check_installed) exits with 0, exits with another code, cannot be started
\* or times out; the run times out or prints an output, which the parser of
\* the language turns into findings (none for an output it cannot parse).
MkEnv(probe, run) == [probe |-> probe, run |-> run]
RunTimeout == [kind |-> "timeout", parsed |-> <<>>]
RunUnparseable == [kind |-> "unparseable", parsed |-> <<>>]
RunOutput(parsed) == [kind |-> "output", parsed |-> parsed]

NoKwargs ==
  [kwargs |-> MkKwargs(KwMissing(KW_ABSENT), KW_ABSENT, KwMissing(KW_ABSENT)),
   env |-> MkEnv("ok", RunUnparseable)]

\* The outcome of execute: a ToolResult or the exception it lets through.
\* "survivors" is history: filtered_issues before the cut.
NoData == [tag |-> "none", total_issues |-> 0, filtered_issues |-> 0,
           issues |-> <<>>, survivors |-> <<>>]
NotCalled == [tag |-> "none", exc |-> "none", success |-> FALSE, error |-> "",
              data |-> NoData]
LinterRaises(e) == [NotCalled EXCEPT !.tag = "raised", !.exc = e]
LinterFailure(error) == [NotCalled EXCEPT !.tag = "returned", !.error = error]
LinterSuccess(data) ==
  [NotCalled EXCEPT !.tag = "returned", !.success = TRUE, !.data = data]

\* str.lower(), on the language names of the model.
LowerLanguage(language) ==
  CASE language = "Python" -> "python"
    [] OTHER -> language

\* kwargs.get("language", ""): the default stands in for a missing keyword
\* only.
KwGetLanguage(kwargs) == IF kwargs.language = KW_ABSENT THEN "" ELSE kwargs.language

\* not filepath
FilepathMissing(filepath) == filepath.tag # "value" \/ filepath.val = <<>>

\* set(changed_lines) under "if changed_lines:"; the empty set when the
\* test fails (None, the default [], or an empty list).
ChangedLinesSet(changed) ==
  IF changed.tag = "value"
  THEN {changed.val[i] : i \in DOMAIN changed.val}
  ELSE {}

\* LinterTool._is_linter_installed
is_linter_installed(probe) == probe = "ok"

\* LinterTool._parse_linter_output
parse_linter_output(run) == IF run.kind = "output" THEN run.parsed ELSE <<>>

\* LinterTool.execute
LinterTool_execute(kwargs, env) ==
  IF kwargs.language = KW_NONE THEN LinterRaises("AttributeError")
  ELSE LET language == LowerLanguage(KwGetLanguage(kwargs)) IN
       IF FilepathMissing(kwargs.filepath)
       THEN LinterFailure("filepath parameter is required")
       ELSE IF language \notin LINTER_COMMANDS
       THEN LinterFailure("Unsupported language")
       ELSE IF ~is_linter_installed(env.probe)
       THEN LinterFailure("Linter not installed")
       ELSE IF env.run.kind = "timeout"
       THEN LinterFailure("Linter execution failed")
       ELSE LET issues == parse_linter_output(env.run)
                filtered_issues ==
                  FilterToChanged(issues, ChangedLinesSet(kwargs.changed_lines))
            IN  LinterSuccess([tag |-> "data",
                               total_issues |-> Len(issues),
                               filtered_issues |-> Len(filtered_issues),
                               issues |-> FirstIssues(filtered_issues),
                               survivors |-> filtered_issues])

\* The arguments and the machines drawn.
KwFilepaths == {KwMissing(KW_ABSENT), KwMissing(KW_NONE), KwValue(<<>>), KwValue(P_APP)}
KwLanguages == {KW_ABSENT, KW_NONE, "", "python", "Python", "kotlin"}
KwChangedLines ==
  {KwMissing(KW_ABSENT), KwMissing(KW_NONE)}
  \cup {KwValue(lines) : lines \in {<<>>, <<1>>, <<1, 2>>, <<3>>}}
Probes == {"ok", "nonzero", "missing", "timeout"}
LinterRuns == {RunTimeout, RunUnparseable} \cup {RunOutput(parsed) : parsed \in ParsedOutputs}

\* execute is called.
LinterExecute ==
  /\ lintOut.tag = "none"
  /\ lintOut' = LinterTool_execute(lintIn.kwargs, lintIn.env)
  /\ UNCHANGED <<lintIn, regVars, platVars, raceVars, cacheVars, cacheHist, runVars, keyVars, exclVars, verifyVars>>

\* ------------------------------------------------------------------------
\* SpecRegistry: ToolRegistry.register and ToolRegistry.execute_tool
\* ------------------------------------------------------------------------

\* A ToolResult, as a tool's execute returns it.
MkToolResult(success, data, error) ==
  [success |-> success, data |-> data, error |-> error]
NoToolResult == MkToolResult(FALSE, "None", "")

\* A Tool: id is the identity of the object, name its name property, does
\* what its execute does when called: return a ToolResult or raise.
MkTool(id, name, does) == [id |-> id, name |-> name, does |-> does]
Returns(result) == [exc |-> "none", result |-> result]
RaisesError(e) == [exc |-> e, result |-> NoToolResult]

\* The tools drawn: two under each name, which succeed, fail or raise.
ToolPool ==
  {MkTool(1, "run_linter", Returns(MkToolResult(TRUE, "issues", ""))),
   MkTool(2, "run_linter", RaisesError("AttributeError")),
   MkTool(3, "read_file", Returns(MkToolResult(TRUE, "content", ""))),
   MkTool(4, "read_file", Returns(MkToolResult(FALSE, "None", "File not found"))),
   MkTool(5, "git_history", Returns(MkToolResult(TRUE, "commits", ""))),
   MkTool(6, "git_history", Returns(MkToolResult(FALSE, "None", "Not a git repository")))}

\* The names execute_tool is called with: those of the tools, and one no
\* tool has.
CalledNames == {"run_linter", "read_file", "git_history", "run_tests"}

\* self._tools = {}
EmptyRegistry == [name \in {} |-> MkTool(0, "", RaisesError("none"))]

\* ToolRegistry.register: self._tools[tool.name] = tool
register(registry, tool) ==
  [name \in DOMAIN registry \cup {tool.name} |->
     IF name = tool.name THEN tool ELSE registry[name]]

\* The outcome of execute_tool: the exception raised or the ToolResult
\* returned.  "ran" is history: the tools whose execute was called, in order.
Outcome(exc, result, ran) == [exc |-> exc, result |-> result, ran |-> ran]

\* ToolRegistry.execute_tool
execute_tool_ReturnsFailure(registry, name) ==
  IF name \notin DOMAIN registry
  THEN Outcome("none", MkToolResult(FALSE, "None", "Tool not found"), <<>>)
  ELSE LET tool == registry[name] IN
       Outcome(tool.does.exc, tool.does.result, <<tool.id>>)
execute_tool(registry, name) ==
  IF name \notin DOMAIN registry                  \* get_tool gives None
  THEN Outcome("ValueError", NoToolResult, <<>>)
  ELSE LET tool == registry[name] IN
       Outcome(tool.does.exc, tool.does.result, <<tool.id>>)

NoExecution ==
  [tag |-> "none", name |-> "", registry |-> EmptyRegistry,
   outcome |-> Outcome("none", NoToolResult, <<>>)]

\* registry.register(tool)
Register(tool) ==
  /\ reg_tools' = register(reg_tools, tool)
  /\ UNCHANGED <<reg_last, lintVars, platVars, raceVars, cacheVars, cacheHist, runVars, keyVars,
                 exclVars, verifyVars>>

\* registry.execute_tool(name, ...)
ExecuteTool(name) ==
  /\ reg_last' = [tag |-> "called", name |-> name, registry |-> reg_tools,
                  outcome |-> execute_tool(reg_tools, name)]
  /\ UNCHANGED <<reg_tools, lintVars, platVars, raceVars, cacheVars, cacheHist, runVars, keyVars,
                 exclVars, verifyVars>>

\* ------------------------------------------------------------------------
\* SpecPlatform: the comments of a change request, over review runs
\* ------------------------------------------------------------------------

\* Review runs on the change request, comments people write on it, and
\* inline comments a run has to post.
MaxPlatformRuns == 2
MaxHumanComments == 2
MaxPosted == 2

\* _BOT_MARKER
BOT_MARKER == "<!-- @kuncie-aireviewer -->"

\* The body of a comment, as the sequence of its parts.
\* _BOT_MARKER in body
HasMarker(body) == \E i \in DOMAIN body : body[i] = BOT_MARKER

\* f"{_BOT_MARKER}\n{emoji} **{severity}**: {comment}" and
\* f"{_BOT_MARKER}\n{summary}"
InlineBody == <<BOT_MARKER, "finding">>
SummaryBody == <<BOT_MARKER, "summary">>

\* What people write: their own words, or words around a quoted bot
\* comment, marker included.
HumanBodies == {<<"remark">>, <<"quote", BOT_MARKER, "finding", "reply">>}

\* A comment on the change request: a review (inline) comment or an issue
\* comment, its author, and the run that posted it (0 for a person).
MkPosted(id, kind, author, body, run) ==
  [id |-> id, kind |-> kind, author |-> author, body |-> body, run |-> run]

\* The state of the adapter's calls: the run, the number of comments in
\* all_comments, and history: the comments the last clear_bot_comments
\* deleted, whether a deletion failed, the comments the run posted, and
\* the ids given out.
NoPlatformRun ==
  [n |-> 0, to_post |-> 0, deleted |-> {}, failed |-> FALSE, posted |-> {},
   next_id |-> 1, humans |-> 0]

\* Someone comments on the change request.
HumanComments(kind, body) ==
  /\ p_run.humans < MaxHumanComments
  /\ thread' = thread \cup {MkPosted(p_run.next_id, kind, "human", body, 0)}
  /\ p_run' = [p_run EXCEPT !.next_id = @ + 1, !.humans = @ + 1]
  /\ UNCHANGED <<p_pc, lintVars, regVars, raceVars, cacheVars, cacheHist, runVars, keyVars,
                 exclVars, verifyVars>>

\* review_pull_request reaches its calls on the platform with n comments
\* in all_comments.
PlatformRunStarts(n) ==
  /\ p_pc \in {"idle", "done"}
  /\ p_run.n < MaxPlatformRuns
  /\ p_run' = [p_run EXCEPT !.n = @ + 1, !.to_post = n, !.deleted = {},
                            !.failed = FALSE, !.posted = {}]
  /\ p_pc' = "clear"
  /\ UNCHANGED <<thread, lintVars, regVars, raceVars, cacheVars, cacheHist, runVars, keyVars,
                 exclVars, verifyVars>>

\* clear_bot_comments: every review comment and every issue comment whose
\* body holds the marker is deleted; a deletion that fails is passed over.
clear_bot_comments(comments, failing) ==
  {c \in comments : ~HasMarker(c.body) \/ c \in failing}

PlatformClear ==
  /\ p_pc = "clear"
  /\ \E failing \in SUBSET {c \in thread : HasMarker(c.body)} :
       /\ thread' = clear_bot_comments(thread, failing)
       /\ p_run' = [p_run EXCEPT !.deleted = thread \ thread',
                                 !.failed = failing # {}]
  /\ p_pc' = "post"
  /\ UNCHANGED <<lintVars, regVars, raceVars, cacheVars, cacheHist, runVars, keyVars,
                 exclVars, verifyVars>>

\* if all_comments: post_comments(pr_id, all_comments): a comment whose
\* posting fails is passed over.
PlatformPost ==
  /\ p_pc = "post"
  /\ \E ok \in SUBSET (1..p_run.to_post) :
       LET made == {MkPosted(p_run.next_id + i - 1, "inline", "bot", InlineBody,
                             p_run.n) : i \in ok}
       IN  /\ thread' = thread \cup made
           /\ p_run' = [p_run EXCEPT !.posted = made,
                                     !.next_id = @ + p_run.to_post]
  /\ p_pc' = "summary"
  /\ UNCHANGED <<lintVars, regVars, raceVars, cacheVars, cacheHist, runVars, keyVars,
                 exclVars, verifyVars>>

\* post_summary
PlatformSummary ==
  /\ p_pc = "summary"
  /\ LET made == MkPosted(p_run.next_id, "summary", "bot", SummaryBody, p_run.n)
     IN  /\ thread' = thread \cup {made}
         /\ p_run' = [p_run EXCEPT !.posted = @ \cup {made}, !.next_id = @ + 1]
  /\ p_pc' = "done"
  /\ UNCHANGED <<lintVars, regVars, raceVars, cacheVars, cacheHist, runVars, keyVars,
                 exclVars, verifyVars>>

\* ------------------------------------------------------------------------
\* SpecRace: two invocations of the pipeline on one cache directory
\* ------------------------------------------------------------------------

\* The invocations, and the CacheManager calls each of them makes.
Invocations == {1, 2}
MaxRaceCalls == 2

\* The entry both invocations work on.
RaceKey == get_cache_key(KeyContent(P_APP, <<"+">>, V3))

\* The payloads set: their texts have different lengths.
RacePayloads == {<<>>, <<MkComment(P_APP, 1, "critical")>>}

\* The length of json.dumps(data), counted in units in which a payload with
\* more comments has the longer text.
TextSize(review_data) == 1 + Len(review_data)

\* What an invocation holds between two steps of a call: the call, the
\* review_data of a set, the file its open descriptor refers to ("linked":
\* the file of the directory entry, "orphan": a file that was unlinked since
\* the open), and the number of sets completed when the call began.
NoLocal == [op |-> "none", review_data |-> <<>>, fd |-> "none", began |-> 0]

\* What a call returned or raised.  "after" is history: the payloads of the
\* sets completed when a get began (the last of them) or while it ran.
NoOutcome == [op |-> "none", exc |-> "none", ret |-> None, removed |-> 0,
              after |-> {}]

\* A call returns or raises: the invocation is between two calls again.
Finish(i, outcome) ==
  /\ r_pc' = [r_pc EXCEPT ![i] = "idle"]
  /\ r_out' = [r_out EXCEPT ![i] = outcome]

\* Path.unlink on the entry: open descriptors keep the unlinked file.
Orphaned(loc) ==
  [j \in DOMAIN loc |-> IF loc[j].fd = "linked" THEN [loc[j] EXCEPT !.fd = "orphan"]
                        ELSE loc[j]]

\* The payloads of the sets completed from the began-th event on: none when
\* no set had completed, or when a clear_expired removed the entry since.
CompletedFrom(began) ==
  IF began = 0 \/ \E j \in began..Len(r_sets) : r_sets[j] = None THEN {}
  ELSE {r_sets[j].items : j \in began..Len(r_sets)}

\* get, line 46: cache_file.exists()
GetExists(i) ==
  /\ r_pc[i] = "idle"
  /\ r_calls[i] < MaxRaceCalls
  /\ r_calls' = [r_calls EXCEPT ![i] = @ + 1]
  /\ r_loc' = [r_loc EXCEPT ![i] = [NoLocal EXCEPT !.op = "get", !.began = Len(r_sets)]]
  /\ IF ReadFile(files, RaceKey).kind = "absent"
     THEN Finish(i, [NoOutcome EXCEPT !.op = "get",
                                      !.after = CompletedFrom(Len(r_sets))])
     ELSE /\ r_pc' = [r_pc EXCEPT ![i] = "get_read"]
          /\ UNCHANGED r_out
  /\ UNCHANGED <<files, now, r_size, r_sets>>

\* get, lines 50-61: read_text, json.loads, the expiration check.  A file
\* that is gone makes read_text raise FileNotFoundError, which the except
\* clause of line 63 does not catch.
GetRead(i) ==
  /\ r_pc[i] = "get_read"
  /\ LET r == cache_get(files, RaceKey, now)
         after == CompletedFrom(r_loc[i].began)
     IN  IF ReadFile(files, RaceKey).kind = "absent"
         THEN Finish(i, [NoOutcome EXCEPT !.op = "get", !.exc = "FileNotFoundError",
                                          !.after = after])
         ELSE IF r.exc # "none"
         THEN Finish(i, [NoOutcome EXCEPT !.op = "get", !.exc = r.exc, !.after = after])
         ELSE IF r.files # files
         THEN /\ r_pc' = [r_pc EXCEPT ![i] = "get_unlink"]
              /\ UNCHANGED r_out
         ELSE Finish(i, [NoOutcome EXCEPT !.op = "get", !.ret = r.ret, !.after = after])
  /\ UNCHANGED <<files, now, r_size, r_sets, r_loc, r_calls>>

\* get, line 57 or 65: cache_file.unlink(), then return None.
GetUnlink(i) ==
  /\ r_pc[i] = "get_unlink"
  /\ IF ReadFile(files, RaceKey).kind = "absent"
     THEN /\ Finish(i, [NoOutcome EXCEPT !.op = "get", !.exc = "FileNotFoundError",
                                         !.after = CompletedFrom(r_loc[i].began)])
          /\ UNCHANGED <<files, r_size, r_loc>>
     ELSE /\ files' = Unlink(files, RaceKey)
          /\ r_size' = 0
          /\ r_loc' = Orphaned(r_loc)
          /\ Finish(i, [NoOutcome EXCEPT !.op = "get",
                                         !.after = CompletedFrom(r_loc[i].began)])
  /\ UNCHANGED <<now, r_sets, r_calls>>

\* set, line 84, first half: write_text opens the file for writing, which
\* creates it or truncates it.
SetOpen(i, review_data) ==
  /\ r_pc[i] = "idle"
  /\ r_calls[i] < MaxRaceCalls
  /\ r_calls' = [r_calls EXCEPT ![i] = @ + 1]
  /\ files' = WriteText(files, RaceKey, NotJson)
  /\ r_size' = 0
  /\ r_loc' = [r_loc EXCEPT ![i] = [op |-> "set", review_data |-> review_data,
                                    fd |-> "linked", began |-> Len(r_sets)]]
  /\ r_pc' = [r_pc EXCEPT ![i] = "set_write"]
  /\ UNCHANGED <<now, r_sets, r_out>>

\* set, line 84, second half: the text is written at the start of the open
\* file, over what another writer put there since the truncation; then set
\* returns.
SetWrite(i) ==
  /\ r_pc[i] = "set_write"
  /\ LET review_data == r_loc[i].review_data
         text == json_dumps(isoformat(now), review_data)
     IN  /\ IF r_loc[i].fd = "orphan" THEN UNCHANGED <<files, r_size>>
            ELSE IF TextSize(review_data) >= r_size
            THEN /\ files' = WriteText(files, RaceKey, text)
                 /\ r_size' = TextSize(review_data)
            ELSE /\ files' = WriteText(files, RaceKey, NotJson)
                 /\ UNCHANGED r_size
         /\ r_sets' = Append(r_sets, Some(review_data))
  /\ Finish(i, [NoOutcome EXCEPT !.op = "set"])
  /\ UNCHANGED <<now, r_loc, r_calls>>

\* clear_expired, line 103: the files of the directory.
ClearGlob(i) ==
  /\ r_pc[i] = "idle"
  /\ r_calls[i] < MaxRaceCalls
  /\ r_calls' = [r_calls EXCEPT ![i] = @ + 1]
  /\ r_loc' = [r_loc EXCEPT ![i] = [NoLocal EXCEPT !.op = "clear_expired",
                                                   !.began = Len(r_sets)]]
  /\ IF ReadFile(files, RaceKey).kind = "absent"
     THEN Finish(i, [NoOutcome EXCEPT !.op = "clear_expired"])
     ELSE /\ r_pc' = [r_pc EXCEPT ![i] = "clear_read"]
          /\ UNCHANGED r_out
  /\ UNCHANGED <<files, now, r_size, r_sets>>

\* clear_expired, lines 105-108: read_text, json.loads, the expiration
\* check.  Every exception, FileNotFoundError included, goes to the handler.
ClearRead(i) ==
  /\ r_pc[i] = "clear_read"
  /\ LET c == ReadFile(files, RaceKey) IN
     IF c.kind = "absent"
     THEN /\ r_pc' = [r_pc EXCEPT ![i] = "clear_handler"]
          /\ UNCHANGED r_out
     ELSE IF ~ClearExpiredRemoves(c, now)
     THEN Finish(i, [NoOutcome EXCEPT !.op = "clear_expired"])
     ELSE IF c.kind = "object" /\ fromisoformat(c.ts).exc = "none"
     THEN /\ r_pc' = [r_pc EXCEPT ![i] = "clear_unlink"]
          /\ UNCHANGED r_out
     ELSE /\ r_pc' = [r_pc EXCEPT ![i] = "clear_handler"]
          /\ UNCHANGED r_out
  /\ UNCHANGED <<files, now, r_size, r_sets, r_loc, r_calls>>

\* clear_expired, lines 109-110: cache_file.unlink() inside the try block.
ClearUnlink(i) ==
  /\ r_pc[i] = "clear_unlink"
  /\ IF ReadFile(files, RaceKey).kind = "absent"
     THEN /\ r_pc' = [r_pc EXCEPT ![i] = "clear_handler"]
          /\ UNCHANGED <<files, r_size, r_loc, r_out, r_sets>>
     ELSE /\ files' = Unlink(files, RaceKey)
          /\ r_size' = 0
          /\ r_loc' = Orphaned(r_loc)
          /\ r_sets' = Append(r_sets, None)
          /\ Finish(i, [NoOutcome EXCEPT !.op = "clear_expired", !.removed = 1])
  /\ UNCHANGED <<now, r_calls>>

\* clear_expired, lines 111-113: cache_file.unlink() in the handler, where
\* nothing catches what it raises.
ClearHandler(i) ==
  /\ r_pc[i] = "clear_handler"
  /\ IF ReadFile(files, RaceKey).kind = "absent"
     THEN /\ Finish(i, [NoOutcome EXCEPT !.op = "clear_expired",
                                         !.exc = "FileNotFoundError"])
          /\ UNCHANGED <<files, r_size, r_loc, r_sets>>
     ELSE /\ files' = Unlink(files, RaceKey)
          /\ r_size' = 0
          /\ r_loc' = Orphaned(r_loc)
          /\ r_sets' = Append(r_sets, None)
          /\ Finish(i, [NoOutcome EXCEPT !.op = "clear_expired", !.removed = 1])
  /\ UNCHANGED <<now, r_calls>>

\* The entry at the start: none, one set within the TTL or before it, or a
\* file that is no JSON.
RaceEntries ==
  {Absent, NotJson} \cup {json_dumps(isoformat(0), p) : p \in RacePayloads}
RaceDirectory(c) ==
  IF c = Absent THEN [x \in {} |-> Absent] ELSE [x \in {RaceKey} |-> c]
RaceSize(c) ==
  IF c.kind = "object" THEN TextSize(c.review.items)
  ELSE IF c.kind = "absent" THEN 0 ELSE 1

\* ------------------------------------------------------------------------
\* The specifications
\* ------------------------------------------------------------------------

CacheIdle ==
  /\ last = NoCall
  /\ lastSet = [k \in CacheKeys |-> NoSet]
  /\ expiredSeen = {}

RunIdle ==
  /\ pc = "idle"
  /\ runs = 0
  /\ changes = <<>>
  /\ idx = 1
  /\ stats = ZeroStats
  /\ all_comments = <<>>
  /\ pending_items = <<>>
  /\ chunk_idx = 1
  /\ calls = <<>>
  /\ lastChange = NoChange
  /\ reviewed = [x \in {} |-> NotReviewed]
  /\ answered = NoAnswer

KeyIdle ==
  /\ keyIn = NoTriples
  /\ keyOut = <<>>

ExcludeIdle ==
  /\ exclIn = <<>>
  /\ exclOut = <<>>
  /\ exclUtil = <<>>

VerifyIdle ==
  /\ v_pc = "idle"
  /\ tools = {}
  /\ initial_issues = <<>>
  /\ high_severity_issues = <<>>
  /\ other_issues = <<>>
  /\ v_idx = 1
  /\ verified_issues = <<>>
  /\ final_issues = <<>>
  /\ v_language = "None"
  /\ changed_lines = {}
  /\ evidence = NoEvidence
  /\ gathered = <<>>

LintIdle ==
  /\ lintIn = NoKwargs
  /\ lintOut = NotCalled

RegistryIdle ==
  /\ reg_tools = EmptyRegistry
  /\ reg_last = NoExecution

PlatformIdle ==
  /\ thread = {}
  /\ p_pc = "idle"
  /\ p_run = NoPlatformRun

RaceIdle ==
  /\ r_pc = [i \in Invocations |-> "idle"]
  /\ r_loc = [i \in Invocations |-> NoLocal]
  /\ r_out = [i \in Invocations |-> NoOutcome]
  /\ r_calls = [i \in Invocations |-> 0]
  /\ r_size = 0
  /\ r_sets = <<>>

MoreIdle ==
  /\ LintIdle
  /\ RegistryIdle
  /\ PlatformIdle
  /\ RaceIdle

EmptyCacheDir ==
  /\ files = [x \in {} |-> Absent]
  /\ now = 0

InitCache ==
  /\ EmptyCacheDir
  /\ CacheIdle
  /\ enable_verification = TRUE
  /\ batch_size = BatchSize
  /\ RunIdle
  /\ KeyIdle
  /\ ExcludeIdle
  /\ VerifyIdle
  /\ MoreIdle

NextCache ==
  \/ \E k \in CacheKeys : Get(k)
  \/ \E k \in CacheKeys, p \in Payloads : Set(k, p)
  \/ Clear
  \/ ClearExpired
  \/ \E k \in CacheKeys, c \in ForeignContents : ForeignWrite(k, c)
  \/ Tick

SpecCache == InitCache /\ [][NextCache]_vars

\* A CodeReviewer, with verification enabled or not, and an empty cache
\* directory.
Init ==
  /\ EmptyCacheDir
  /\ CacheIdle
  /\ enable_verification \in BOOLEAN
  /\ batch_size = BatchSize
  /\ RunIdle
  /\ KeyIdle
  /\ ExcludeIdle
  /\ VerifyIdle
  /\ MoreIdle

Next ==
  \/ \E cs \in ChangeSets : StartRun(cs)
  \/ TimePasses
  \/ \E k \in DOMAIN files, c \in DamagedContents : EntryDamaged(k, c)
  \/ LoopExclude
  \/ LoopSkip
  \/ LoopCacheRaises
  \/ LoopCacheHit
  \/ LoopCacheMiss
  \/ ReviewBatch
  \/ ClearBotComments
  \/ PostComments
  \/ PostSummary

Spec == Init /\ [][Next]_vars

\* Runs on changesets in which two files have the same key content, against
\* a cache directory no other program writes to, within the TTL.
CollidingChangePool ==
  {MkChange(P_APP, D_COLON, FALSE), MkChange(P_APP_COLON, D_SMALL, FALSE),
   MkChange(P_APP, D_OVER, FALSE), MkChange(P_ENV, D_SMALL, FALSE)}
CollidingChangeSets ==
  {cs \in UNION {[1..n -> CollidingChangePool] : n \in 0..MaxChanges} :
     \A i, j \in DOMAIN cs : cs[i].filepath = cs[j].filepath => i = j}

NextCollide ==
  \/ \E cs \in CollidingChangeSets : StartRun(cs)
  \/ LoopExclude
  \/ LoopSkip
  \/ LoopCacheHit
  \/ LoopCacheMiss
  \/ ReviewBatch
  \/ ClearBotComments
  \/ PostComments
  \/ PostSummary

SpecCollide == Init /\ [][NextCollide]_vars

\* The batch phase of a run, taken up where the loop over the changes has
\* ended with every change a cache miss (verification disabled, so that no
\* linter ran): a drawn changeset and a drawn batch size.
MaxPending == 4
MaxBatchSize == 3

BatchPaths == {P_APP, P_DOC, P_KT, P_JS}
PendingChangeSets ==
  {cs \in UNION {[1..n -> {MkChange(p, D_SMALL, FALSE) : p \in BatchPaths}] :
                   n \in 0..MaxPending} :
     \A i, j \in DOMAIN cs : cs[i].filepath = cs[j].filepath => i = j}

InitBatch ==
  /\ EmptyCacheDir
  /\ CacheIdle
  /\ enable_verification = FALSE
  /\ batch_size \in 1..MaxBatchSize
  /\ runs = 1
  /\ changes \in PendingChangeSets
  /\ idx = Len(changes) + 1
  /\ stats = ZeroStats
  /\ all_comments = <<>>
  /\ pending_items = [i \in DOMAIN changes |-> PendingItem(changes[i], NoLinterResults)]
  /\ chunk_idx = 1
  /\ calls = [i \in DOMAIN changes |-> Call("cache_get", {changes[i].filepath})]
  /\ lastChange = IF changes = <<>> THEN NoChange
                  ELSE Handled("miss", changes[Len(changes)], <<>>)
  /\ reviewed = [x \in {} |-> NotReviewed]
  /\ answered = NoAnswer
  /\ pc = IF changes = <<>> THEN "clear" ELSE "batch"
  /\ KeyIdle
  /\ ExcludeIdle
  /\ VerifyIdle
  /\ MoreIdle

NextBatch ==
  \/ ReviewBatch
  \/ ClearBotComments
  \/ PostComments
  \/ PostSummary

SpecBatch == InitBatch /\ [][NextBatch]_vars

\* Two (filepath, diff, version) triples, whose keys are then derived.
InitKey ==
  /\ EmptyCacheDir
  /\ CacheIdle
  /\ enable_verification = TRUE
  /\ batch_size = BatchSize
  /\ RunIdle
  /\ keyIn \in [a : KeyTriples, b : KeyTriples]
  /\ keyOut = <<>>
  /\ ExcludeIdle
  /\ VerifyIdle
  /\ MoreIdle

NextKey == DeriveKeys

SpecKey == InitKey /\ [][NextKey]_vars

\* The paths of a changeset of two files, on which the decision is taken.
InitExclude ==
  /\ EmptyCacheDir
  /\ CacheIdle
  /\ enable_verification = TRUE
  /\ batch_size = BatchSize
  /\ RunIdle
  /\ KeyIdle
  /\ exclIn \in [1..2 -> PathPool]
  /\ exclOut = <<>>
  /\ exclUtil = <<>>
  /\ VerifyIdle
  /\ MoreIdle

NextExclude == ExcludeScan

SpecExclude == InitExclude /\ [][NextExclude]_vars

\* A verifier over a registry of tools, and one call of verify_issues.
InitVerify ==
  /\ EmptyCacheDir
  /\ CacheIdle
  /\ enable_verification = TRUE
  /\ batch_size = BatchSize
  /\ RunIdle
  /\ KeyIdle
  /\ ExcludeIdle
  /\ VerifyIdle
  /\ MoreIdle

NextVerify ==
  \/ \E registry \in Registries, issues \in IssueLists, fp \in {P_APP, P_DOC},
        changed \in ChangedLineSets :
       VerifyCall(registry, issues, fp, changed)
  \/ VerifyIssue
  \/ VerifyReturn

SpecVerify == InitVerify /\ [][NextVerify]_vars

\* A call of LinterTool.execute: drawn keyword arguments, on a drawn machine.
InitLinter ==
  /\ EmptyCacheDir
  /\ CacheIdle
  /\ enable_verification = TRUE
  /\ batch_size = BatchSize
  /\ RunIdle
  /\ KeyIdle
  /\ ExcludeIdle
  /\ VerifyIdle
  /\ lintIn \in [kwargs : {MkKwargs(f, l, c) : f \in KwFilepaths, l \in KwLanguages,
                                               c \in KwChangedLines},
                  env : {MkEnv(p, r) : p \in Probes, r \in LinterRuns}]
  /\ lintOut = NotCalled
  /\ RegistryIdle
  /\ PlatformIdle
  /\ RaceIdle

NextLinter == LinterExecute

SpecLinter == InitLinter /\ [][NextLinter]_vars

\* A new ToolRegistry, on which tools are registered and executed by name.
InitRegistry ==
  /\ EmptyCacheDir
  /\ CacheIdle
  /\ enable_verification = TRUE
  /\ batch_size = BatchSize
  /\ RunIdle
  /\ KeyIdle
  /\ ExcludeIdle
  /\ VerifyIdle
  /\ MoreIdle

NextRegistry ==
  \/ \E tool \in ToolPool : Register(tool)
  \/ \E name \in CalledNames : ExecuteTool(name)

SpecRegistry == InitRegistry /\ [][NextRegistry]_vars

\* A change request without comments, on which people comment and review
\* runs clear and post.
InitPlatform ==
  /\ EmptyCacheDir
  /\ CacheIdle
  /\ enable_verification = TRUE
  /\ batch_size = BatchSize
  /\ RunIdle
  /\ KeyIdle
  /\ ExcludeIdle
  /\ VerifyIdle
  /\ MoreIdle

NextPlatform ==
  \/ \E kind \in {"inline", "summary"}, body \in HumanBodies : HumanComments(kind, body)
  \/ \E n \in 0..MaxPosted : PlatformRunStarts(n)
  \/ PlatformClear
  \/ PlatformPost
  \/ PlatformSummary

SpecPlatform == InitPlatform /\ [][NextPlatform]_vars

\* Two invocations start on a cache directory holding at most one entry, at
\* a time at which an entry of time 0 is within the TTL or past it.
InitRace ==
  /\ \E c \in RaceEntries :
       /\ files = RaceDirectory(c)
       /\ r_size = RaceSize(c)
  /\ now \in {0, MaxTime}
  /\ CacheIdle
  /\ enable_verification = TRUE
  /\ batch_size = BatchSize
  /\ RunIdle
  /\ KeyIdle
  /\ ExcludeIdle
  /\ VerifyIdle
  /\ LintIdle
  /\ RegistryIdle
  /\ PlatformIdle
  /\ r_pc = [i \in Invocations |-> "idle"]
  /\ r_loc = [i \in Invocations |-> NoLocal]
  /\ r_out = [i \in Invocations |-> NoOutcome]
  /\ r_calls = [i \in Invocations |-> 0]
  /\ r_sets = <<>>

RaceRest == <<cacheHist, runVars, keyVars, exclVars, verifyVars, lintVars, regVars, platVars>>

NextRace ==
  \E i \in Invocations :
    \/ GetExists(i) /\ UNCHANGED RaceRest
    \/ GetRead(i) /\ UNCHANGED RaceRest
    \/ GetUnlink(i) /\ UNCHANGED RaceRest
    \/ \E p \in RacePayloads : SetOpen(i, p) /\ UNCHANGED RaceRest
    \/ SetWrite(i) /\ UNCHANGED RaceRest
    \/ ClearGlob(i) /\ UNCHANGED RaceRest
    \/ ClearRead(i) /\ UNCHANGED RaceRest
    \/ ClearUnlink(i) /\ UNCHANGED RaceRest
    \/ ClearHandler(i) /\ UNCHANGED RaceRest

SpecRace == InitRace /\ [][NextRace]_vars

\* ------------------------------------------------------------------------
\* The claims on the CacheManager (SpecCache)
\* ------------------------------------------------------------------------

C3_ExpiredEntryIsMissAndRemoved ==
  /\ (/\ last.op = "get"
      /\ last.pre.kind = "object"
      /\ last.pre.ts.tag = "iso"
      /\ last.t - last.pre.ts.t > TtlDays)
     => (last.exc = "none" /\ last.ret = None /\ last.key \notin DOMAIN files)
  /\ \A k \in expiredSeen :
       /\ k \notin DOMAIN files
       /\ (last.op = "get" /\ last.key = k) => (last.exc = "none" /\ last.ret = None)

\* A get on a key whose entry an earlier get found expired.
C3_Witness ==
  /\ last.op = "get"
  /\ last.key \in expiredSeen
  /\ last.pre = Absent
  /\ last.ret = None

\* The malformed entry files of C4.
Malformed(c) ==
  \/ c.kind \in {"notjson", "list", "scalar"}
  \/ (c.kind = "object" /\ (c.ts.tag \in {"badstr", "nonstr"} \/ c.review.tag = "absent"))

\* C4: get never raises; a missing entry gives absent; a malformed entry
\* file (no JSON, JSON that is no object, an object with an unparseable
\* timestamp or without the payload) gives absent and is deleted.
C4_GetNeverRaisesAndHeals ==
  last.op = "get" =>
    /\ last.exc = "none"
    /\ last.pre = Absent => last.ret = None
    /\ Malformed(last.pre) => (last.ret = None /\ last.key \notin DOMAIN files)

\* ------------------------------------------------------------------------
\* The claims on review_pull_request (Spec)
\* ------------------------------------------------------------------------

Places(op) == {i \in DOMAIN calls : calls[i].op = op}

\* The last AI review of the file the loop has just dealt with, if an
\* earlier run made it and no more than the TTL has passed since.
EarlierReview == ReviewedAt(reviewed, lastChange.key)
ReviewedEarlierWithinTtl ==
  /\ lastChange.outcome \in {"hit", "miss", "raised"}
  /\ EarlierReview.tag = "some"
  /\ EarlierReview.run < lastChange.run
  /\ now - EarlierReview.t <= TtlDays

\* C1: a file reviewed in one run and met again, with the same diff and
\* pipeline version, in a later run within the TTL is a cache hit, gets the
\* comments of the first run, and is in no AI call of the later run,
\* whatever comment list the AI returned in the first run.
C1_SecondRunHitsCache ==
  ReviewedEarlierWithinTtl =>
    /\ lastChange.outcome = "hit"
    /\ lastChange.comments = EarlierReview.comments
    /\ \A i \in Places("review_batch") : lastChange.filepath \notin calls[i].paths

\* C6: a failure while processing one file (a cache read error, a linter
\* failure, a file of no detectable language) raises nothing out of
\* review_pull_request, and the run goes on to post its summary.
C6_NoExceptionLeavesTheRun ==
  /\ pc # "raised"
  /\ pc = "returned" => Places("post_summary") # {}

\* C7: the cache lookups, linter runs, AI calls and cache writes of a run
\* come first, then clear_bot_comments once, then post_comments (at most
\* once, and only with a comment to post), then post_summary once; nothing
\* is posted before the clear.
C7_ClearThenPostThenSummary ==
  /\ Cardinality(Places("clear_bot_comments")) <= 1
  /\ Cardinality(Places("post_comments")) <= 1
  /\ Cardinality(Places("post_summary")) <= 1
  /\ \A i \in Places("post_comments") \cup Places("post_summary") :
       \E j \in Places("clear_bot_comments") : j < i
  /\ \A i \in Places("cache_get") \cup Places("run_linter")
              \cup Places("review_batch") \cup Places("cache_set") :
       \A j \in Places("clear_bot_comments") : i < j
  /\ \A i \in Places("post_comments") : \A j \in Places("post_summary") : i < j
  /\ Places("post_comments") # {} => all_comments # <<>>
  /\ pc = "returned" =>
       /\ Cardinality(Places("clear_bot_comments")) = 1
       /\ Cardinality(Places("post_summary")) = 1
       /\ Places("post_comments") # {} <=> all_comments # <<>>

\* A run that looked up the cache, ran the linter, asked the AI, wrote the
\* cache, cleared, posted comments and posted its summary.
C7_Witness ==
  /\ pc = "returned"
  /\ Places("cache_get") # {}
  /\ Places("run_linter") # {}
  /\ Places("review_batch") # {}
  /\ Places("cache_set") # {}
  /\ Places("post_comments") # {}

\* C8: with verification enabled, the comments of a fresh review pass
\* through the Verifier before they are cached and posted, so every
\* critical or major comment posted carries a linter_confirmed field.
C8_PostedHighSeverityIsVerified ==
  (enable_verification /\ Places("post_comments") # {}) =>
    \A i \in DOMAIN all_comments :
      all_comments[i].severity \in {"critical", "major"}
        => all_comments[i].linter_confirmed # "unset"

\* ------------------------------------------------------------------------
\* The claim on the cache key (SpecKey)
\* ------------------------------------------------------------------------

\* The components in which two triples differ.
DifferIn(x, y) ==
  {c \in {"filepath", "diff", "version"} :
     \/ (c = "filepath" /\ x.filepath # y.filepath)
     \/ (c = "diff" /\ x.diff # y.diff)
     \/ (c = "version" /\ x.version # y.version)}

\* C5: the cache key is a function of (filepath, diff, pipeline-version
\* tag): equal triples give equal keys, and two triples that differ in
\* exactly one component give different keys.
C5_KeyOfTriple ==
  keyOut # <<>> =>
    /\ keyIn.a = keyIn.b => keyOut[1] = keyOut[2]
    /\ Cardinality(DifferIn(keyIn.a, keyIn.b)) = 1 => keyOut[1] # keyOut[2]

\* Keys derived for two triples that differ in the diff alone, the
\* separator character occurring in path and diffs.
C5_Witness ==
  /\ keyOut # <<>>
  /\ DifferIn(keyIn.a, keyIn.b) = {"diff"}
  /\ keyIn.a.filepath = <<"a", ":">>
  /\ keyIn.a.diff = <<":">>
  /\ keyIn.b.diff = <<":", "a">>
  /\ keyOut[1] # keyOut[2]

\* ------------------------------------------------------------------------
\* The claims on verify_issues (SpecVerify)
\* ------------------------------------------------------------------------

\* The issues of the call whose severity is critical or major.
IsCriticalOrMajor(issue) ==
  issue.severity \in {"critical", "Critical", "major", "Major"}
HighIds ==
  {initial_issues[i].id : i \in {j \in DOMAIN initial_issues :
                                   IsCriticalOrMajor(initial_issues[j])}}

\* C9: exactly the issues whose severity is critical or major go through
\* evidence gathering and linter confirmation; every other issue is
\* returned as the same unmodified record, in the original relative order.
C9_OnlyHighSeverityIsVerified ==
  /\ \A i \in DOMAIN gathered : gathered[i] \in HighIds
  /\ \A i, j \in DOMAIN gathered : gathered[i] = gathered[j] => i = j
  /\ v_pc = "done" =>
       /\ {gathered[i] : i \in DOMAIN gathered} = HighIds
       /\ SelectSeq(final_issues, LAMBDA issue : ~IsCriticalOrMajor(issue))
            = SelectSeq(initial_issues, LAMBDA issue : ~IsCriticalOrMajor(issue))
       /\ \A i \in DOMAIN final_issues :
            IsCriticalOrMajor(final_issues[i])
              <=> final_issues[i].linter_confirmed # "unset"

\* A finished call on three issues, two of them of another severity, the
\* high-severity one spelled with a capital.
C9_Witness ==
  /\ v_pc = "done"
  /\ Len(initial_issues) = 3
  /\ Len(gathered) = 1
  /\ \E i \in DOMAIN initial_issues : initial_issues[i].severity = "Major"

Ids(issues) == [i \in DOMAIN issues |-> issues[i].id]

\* C10: the returned list is the high-severity issues in their input order
\* followed by the other issues in their input order: a permutation of the
\* input, whatever evidence there is.
C10_ResultIsHighThenOther ==
  v_pc = "done" =>
    /\ Ids(final_issues) =
         Ids(SelectSeq(initial_issues, IsCriticalOrMajor))
         \o Ids(SelectSeq(initial_issues, LAMBDA issue : ~IsCriticalOrMajor(issue)))
    /\ Len(final_issues) = Len(initial_issues)
    /\ \A i \in DOMAIN initial_issues :
         Cardinality({j \in DOMAIN final_issues :
                        final_issues[j].id = initial_issues[i].id}) = 1
    /\ \A j \in DOMAIN final_issues :
         LET given == initial_issues[final_issues[j].id] IN
         /\ final_issues[j].line = given.line
         /\ final_issues[j].severity = given.severity
         /\ final_issues[j].refs = given.refs

\* A finished call whose input has a high-severity issue after another one,
\* with no evidence from the linter for it.
C10_Witness ==
  /\ v_pc = "done"
  /\ Len(initial_issues) = 3
  /\ ~IsCriticalOrMajor(initial_issues[1])
  /\ IsCriticalOrMajor(initial_issues[3])
  /\ final_issues[1].id = 3
  /\ final_issues[1].linter_confirmed = "false"
  /\ evidence.linter_results.tag = "none"

\* ------------------------------------------------------------------------
\* The claims on linter confirmation and evidence (SpecVerify)
\* ------------------------------------------------------------------------

\* The issue the loop of verify_issues has just dealt with, as it was given
\* and as it was marked; `evidence` is the evidence gathered for it.
JustVerified == v_pc = "verify" /\ verified_issues # <<>> /\ v_idx > 1
GivenIssue == high_severity_issues[v_idx - 1]
MarkedIssue == verified_issues[Len(verified_issues)]
FindingsOnLine(findings, line) ==
  {i \in DOMAIN findings : findings[i].line = line}

\* C11: an issue is marked linter_confirmed=true only if the findings
\* gathered for it hold one whose line equals the issue's line; a finding
\* on the line before or after, or on any other line, never confirms it.
C11_ConfirmedOnlyBySameLine ==
  (JustVerified /\ MarkedIssue.linter_confirmed = "true") =>
    /\ evidence.linter_results.tag = "data"
    /\ FindingsOnLine(evidence.linter_results.issues, GivenIssue.line) # {}
    /\ MarkedIssue.linter_evidence.line = GivenIssue.line

\* An issue on line 2 whose linter findings are all on line 1: not confirmed.
C11_Witness ==
  /\ JustVerified
  /\ GivenIssue.line = 2
  /\ evidence.linter_results.tag = "data"
  /\ evidence.linter_results.issues # <<>>
  /\ \A i \in DOMAIN evidence.linter_results.issues :
       evidence.linter_results.issues[i].line = 1
  /\ MarkedIssue.linter_confirmed = "false"

\* C12: if the linter run for the file yields a finding on the line of a
\* high-severity issue, that line being one of the changed lines, the issue
\* is marked linter_confirmed=true with that finding's line, severity,
\* message and rule as linter_evidence, however many other findings the
\* linter's output holds.
C12_SameLineFindingConfirms ==
  (/\ JustVerified
   /\ "run_linter" \in evidence.tried
   /\ GivenIssue.line # 0
   /\ GivenIssue.line \in changed_lines
   /\ FindingsOnLine(evidence.parsed, GivenIssue.line) # {})
  => /\ MarkedIssue.linter_confirmed = "true"
     /\ \E i \in FindingsOnLine(evidence.parsed, GivenIssue.line) :
          /\ MarkedIssue.linter_evidence.line = evidence.parsed[i].line
          /\ MarkedIssue.linter_evidence.severity = evidence.parsed[i].severity
          /\ MarkedIssue.linter_evidence.message = evidence.parsed[i].message
          /\ MarkedIssue.linter_evidence.rule = evidence.parsed[i].rule

\* C13: a high-severity issue for which the linter gave no findings,
\* findings on other lines only, or no result at all, is kept in the output
\* with linter_confirmed=false.
C13_UnconfirmedIssueIsKept ==
  /\ (/\ JustVerified
      /\ \/ evidence.linter_results.tag = "none"
         \/ FindingsOnLine(evidence.linter_results.issues, GivenIssue.line) = {})
     => /\ MarkedIssue.id = GivenIssue.id
        /\ MarkedIssue.linter_confirmed = "false"
  /\ v_pc = "verify" => Len(verified_issues) = v_idx - 1
  /\ (v_pc = "done" /\ high_severity_issues # <<>> /\ initial_issues # <<>>) =>
       /\ Len(verified_issues) = Len(high_severity_issues)
       /\ \A i \in DOMAIN verified_issues : final_issues[i] = verified_issues[i]

\* A finished call that kept, unconfirmed, an issue whose linter run gave
\* findings on another line only.
C13_Witness ==
  /\ v_pc = "done"
  /\ Len(verified_issues) = 1
  /\ evidence.linter_results.tag = "data"
  /\ evidence.linter_results.issues # <<>>
  /\ FindingsOnLine(evidence.linter_results.issues, verified_issues[1].line) = {}
  /\ final_issues[1].id = verified_issues[1].id
  /\ final_issues[1].linter_confirmed = "false"

\* C14: verify_issues changes the line, text and severity of no issue; it
\* writes linter_confirmed and linter_evidence only, and on high-severity
\* issues only.
C14_OnlyConfirmationFieldsWritten ==
  /\ \A i \in DOMAIN verified_issues :
       LET given == initial_issues[verified_issues[i].id] IN
       /\ [verified_issues[i] EXCEPT !.linter_confirmed = "unset",
                                     !.linter_evidence = NoLinterEvidence] = given
       /\ IsCriticalOrMajor(given)
  /\ v_pc = "done" =>
       \A j \in DOMAIN final_issues :
         LET given == initial_issues[final_issues[j].id] IN
         /\ [final_issues[j] EXCEPT !.linter_confirmed = "unset",
                                    !.linter_evidence = NoLinterEvidence] = given
         /\ ~IsCriticalOrMajor(given) => final_issues[j] = given

\* A finished call that confirmed a major issue with a finding of another
\* severity and returned a minor issue with it.
C14_Witness ==
  /\ v_pc = "done"
  /\ \E j \in DOMAIN final_issues :
       /\ final_issues[j].linter_confirmed = "true"
       /\ final_issues[j].severity = "Major"
       /\ final_issues[j].linter_evidence.severity = "warning"
  /\ \E j \in DOMAIN final_issues : final_issues[j].severity = "minor"

\* C15: the three evidence sources are independent: one of them failing,
\* by an unsuccessful result or by an error raised (an unregistered tool
\* among them), does not keep the other two from being attempted.
C15_SourcesAreIndependent ==
  JustVerified =>
    /\ (v_language # "None" /\ "run_linter" \in tools)
         => "run_linter" \in evidence.tried
    /\ "git_history" \in tools => "git_history" \in evidence.tried
    /\ (GivenIssue.refs > 0 /\ "read_file" \in tools)
         => "read_file" \in evidence.tried

\* ------------------------------------------------------------------------
\* The claim on batching (SpecBatch)
\* ------------------------------------------------------------------------

RECURSIVE Flatten(_)
Flatten(lists) == IF lists = <<>> THEN <<>> ELSE Head(lists) \o Flatten(Tail(lists))

\* The review_batch calls of the run, in order.
BatchCalls == SelectSeq(calls, LAMBDA c : c.op = "review_batch")
PathsOf(items) == {items[i].filepath : i \in DOMAIN items}

\* C16: N pending items with batch size B >= 1 make ceil(N/B) batches,
\* each non-empty and of at most B items, whose concatenation in order is
\* the pending list; one review_batch call is made per batch, in batch
\* order, and none when N = 0.
C16_BatchesPartitionPending ==
  LET N == Len(pending_items)
      chunks == ChunksOf(pending_items, batch_size)
  IN  /\ Len(chunks) = (N + batch_size - 1) \div batch_size
      /\ \A n \in DOMAIN chunks : chunks[n] # <<>> /\ Len(chunks[n]) <= batch_size
      /\ Flatten(chunks) = pending_items
      /\ Len(BatchCalls) <= Len(chunks)
      /\ \A n \in DOMAIN BatchCalls : BatchCalls[n].paths = PathsOf(chunks[n])
      /\ pc \in {"clear", "post", "summary", "returned"}
           => Len(BatchCalls) = Len(chunks)

\* A finished run on three pending items with batch size two: a full batch
\* and a partial one.
C16_Witness ==
  /\ pc = "returned"
  /\ Len(pending_items) = 3
  /\ batch_size = 2
  /\ Len(BatchCalls) = 2
  /\ Cardinality(BatchCalls[1].paths) = 2
  /\ Cardinality(BatchCalls[2].paths) = 1

\* ------------------------------------------------------------------------
\* The claims on cache writes, filtering and counters (Spec)
\* ------------------------------------------------------------------------

\* C17: after a run, every file that was sent to the AI reviewer has a
\* cache entry under its own key holding exactly the comments the AI
\* returned for it, possibly none.
C17_EveryReviewedFileIsCached ==
  pc = "returned" =>
    \A k \in DOMAIN reviewed :
      reviewed[k].run = runs =>
        /\ k \in DOMAIN files
        /\ files[k].review = ReviewOf(reviewed[k].comments)

\* A change the run must not spend anything on: excluded by its path,
\* binary, or with a diff longer than the ceiling.
Filtered(change) ==
  \/ should_exclude(change.filepath)
  \/ change.binary
  \/ StrLen(change.diff) > MAX_DIFF_LEN

C20_CountersPartitionTheChangeset ==
  pc = "returned" =>
    LET excluded == {i \in DOMAIN changes : should_exclude(changes[i].filepath)}
        skipped == {i \in DOMAIN changes \ excluded :
                      changes[i].binary \/ StrLen(changes[i].diff) > MAX_DIFF_LEN}
    IN  /\ stats.files_excluded = Cardinality(excluded)
        /\ stats.files_skipped = Cardinality(skipped)
        /\ stats.files_reviewed = Len(changes) - Cardinality(excluded) - Cardinality(skipped)
        /\ stats.files_excluded + stats.files_skipped + stats.files_reviewed
             = Len(changes)
        /\ stats.cache_hits <= stats.files_reviewed

\* A finished run over an excluded file and a file the AI reviewed without
\* a comment.
C20_Witness ==
  /\ pc = "returned"
  /\ stats.files_excluded = 1
  /\ stats.files_reviewed = 1
  /\ stats.cache_hits = 0
  /\ all_comments = <<>>
  /\ Places("review_batch") # {}

\* ------------------------------------------------------------------------
\* The claim on exclusion (SpecExclude)
\* ------------------------------------------------------------------------

\* The directories a path lies in: its components but the last.
RECURSIVE Components(_)
Components(path) ==
  LET at == {i \in 1..Len(path) : path[i] = "/"}
  IN  IF at = {} THEN <<path>>
      ELSE LET i == CHOOSE x \in at : \A y \in at : x <= y
           IN  <<SubSeq(path, 1, i - 1)>> \o Components(SubSeq(path, i + 1, Len(path)))
DirectoriesOf(path) ==
  LET parts == Components(path) IN {parts[i] : i \in 1..(Len(parts) - 1)}
BareName(path) == LET parts == Components(path) IN parts[Len(parts)]

\* A path matches a configured rule: it lies in an excluded directory, its
\* file name begins with an excluded prefix, or a pattern matches its file
\* name or the whole path.
MatchesRule(path) ==
  \/ DirectoriesOf(path) \cap ExclDirectories # {}
  \/ \E prefix \in ExclPrefixes : StartsWith(BareName(path), prefix)
  \/ \E pattern \in ExclPatterns :
       fnmatch(BareName(path), pattern) \/ fnmatch(path, pattern)

\* C19: a path that matches any configured rule (excluded directory, file
\* name prefix, glob on the file name or on the full path) is excluded, and
\* the decision on a file depends on its own path only, not on its place
\* in the changeset or on the other file.
C19_MatchingPathIsExcluded ==
  exclOut # <<>> =>
    /\ \A i \in DOMAIN exclIn : MatchesRule(exclIn[i]) => exclOut[i]
    /\ \A i, j \in DOMAIN exclIn : exclIn[i] = exclIn[j] => exclOut[i] = exclOut[j]

\* Two files excluded by a pattern, one through its full path only and one
\* through its file name only, beside each other.
C19_Witness ==
  /\ exclOut = <<TRUE, TRUE>>
  /\ exclIn[1] = <<"l", "i", "b", "/", "a", ".", "p", "y">>
  /\ exclIn[2] = <<"s", "r", "c", "/", "y", "a", "r", "n", ".", "l", "o", "c", "k">>


\* ------------------------------------------------------------------------
\* The claims on LinterTool.execute (SpecLinter)
\* ------------------------------------------------------------------------

LinterCalled == lintOut.tag # "none"

\* The linter of the call could not be run: no file named, no linter for
\* the language, the linter not installed, or the run timed out.
LinterNotRun ==
  \/ FilepathMissing(lintIn.kwargs.filepath)
  \/ lintIn.kwargs.language \in {KW_ABSENT, KW_NONE}
  \/ LowerLanguage(lintIn.kwargs.language) \notin LINTER_COMMANDS
  \/ lintIn.env.probe # "ok"
  \/ lintIn.env.run.kind = "timeout"

\* C21: LinterTool.execute never raises: for every combination of
\* arguments (filepath missing, language unsupported, absent or null) and
\* every machine (linter not installed, probe or run timing out, output
\* that cannot be parsed) it returns a ToolResult, with success=false and
\* an error text whenever the linter could not be run.
C21_ExecuteAlwaysReturnsAToolResult ==
  LinterCalled =>
    /\ lintOut.exc = "none"
    /\ lintOut.tag = "returned"
    /\ LinterNotRun => (~lintOut.success /\ lintOut.error # "")

\* C22: when a changed_lines list is passed, every finding of the result
\* is on a line of that list, for every list including the empty one
\* (which leaves no finding), and filtered_issues is at most total_issues.
C22_FindingsAreOnChangedLines ==
  (LinterCalled /\ lintOut.success /\ lintIn.kwargs.changed_lines.tag = "value") =>
    LET lines == lintIn.kwargs.changed_lines.val
        issues == lintOut.data.issues
    IN  /\ \A i \in DOMAIN issues : \E j \in DOMAIN lines : issues[i].line = lines[j]
        /\ lines = <<>> => issues = <<>>
        /\ lintOut.data.filtered_issues <= lintOut.data.total_issues

SeverityRank(severity) ==
  CASE severity = "error" -> 3
    [] severity = "warning" -> 2
    [] OTHER -> 1

\* C23: the result lists at most 10 findings, and when more than 10
\* survive the filter, those listed are the most significant: no finding
\* left out has a higher severity (error > warning > info) than one listed.
C23_ListedFindingsAreTheMostSignificant ==
  (LinterCalled /\ lintOut.success) =>
    LET issues == lintOut.data.issues
        survivors == lintOut.data.survivors
        omitted == {i \in DOMAIN survivors : i > Len(issues)}
    IN  /\ Len(issues) <= 10
        /\ \A i \in omitted, j \in DOMAIN issues :
             SeverityRank(survivors[i].severity) <= SeverityRank(issues[j].severity)

\* ------------------------------------------------------------------------
\* The claim on the ToolRegistry (SpecRegistry)
\* ------------------------------------------------------------------------

\* C24: execute_tool(name) signals a not-found error and executes no tool
\* when no tool is registered under name; when a tool is registered under
\* name it executes that tool, once, and returns the tool's ToolResult (or
\* lets the tool's exception through), adding no error of its own.
C24_ExecuteToolRunsTheNamedTool ==
  reg_last.tag = "called" =>
    LET registry == reg_last.registry
        outcome == reg_last.outcome
    IN  IF reg_last.name \notin DOMAIN registry
        THEN /\ outcome.exc = "ValueError"
             /\ outcome.ran = <<>>
        ELSE LET tool == registry[reg_last.name] IN
             /\ tool.name = reg_last.name
             /\ outcome.ran = <<tool.id>>
             /\ outcome.exc = tool.does.exc
             /\ outcome.result = tool.does.result

\* execute_tool was called with a name no tool was registered under, in a
\* registry that held other tools; a tool of that name was registered since.
C24_Witness ==
  /\ reg_last.tag = "called"
  /\ reg_last.name = "git_history"
  /\ DOMAIN reg_last.registry = {"run_linter", "read_file"}
  /\ reg_last.outcome.exc = "ValueError"
  /\ DOMAIN reg_tools = {"run_linter", "read_file", "git_history"}

\* ------------------------------------------------------------------------
\* The claim on the bot marker (SpecPlatform)
\* ------------------------------------------------------------------------

BotComments == {c \in thread : c.author = "bot"}

\* C25: over any sequence of review runs on a change request,
\* clear_bot_comments deletes only comments that hold the bot marker and
\* never a comment a person wrote; every inline comment and summary the
\* system posts holds the marker; hence, when the deletions succeed, after
\* each completed run the bot comments on the change request are exactly
\* those the run posted.
C25_ClearDeletesBotCommentsOnly ==
  /\ \A c \in p_run.deleted : HasMarker(c.body) /\ c.author = "bot"
  /\ \A c \in BotComments : HasMarker(c.body)
  /\ (p_pc = "done" /\ ~p_run.failed) => BotComments = p_run.posted

\* ------------------------------------------------------------------------
\* The claim on keys of different changes (SpecKey)
\* ------------------------------------------------------------------------

\* C26: two changes whose (filepath, diff) pairs differ never get the same
\* cache key under the same pipeline version (the digest taken as free of
\* collisions), so no file is served the comments cached for another file
\* or another diff.
C26_DifferentChangesGetDifferentKeys ==
  (/\ keyOut # <<>>
   /\ keyIn.a.version = keyIn.b.version
   /\ <<keyIn.a.filepath, keyIn.a.diff>> # <<keyIn.b.filepath, keyIn.b.diff>>)
    => keyOut[1] # keyOut[2]

\* ------------------------------------------------------------------------
\* The claim on the two exclusion functions (SpecExclude)
\* ------------------------------------------------------------------------

\* The reviewer's own configuration file, which _should_exclude always
\* excludes.
IsReviewerConfig(path) ==
  StartsWith(BareName(path), CONFIG_PREFIX) /\ EndsWith(BareName(path), CONFIG_SUFFIX)

\* A prefix rule or a pattern rule applies to the path.
MatchesFileRule(path) ==
  \/ \E prefix \in ExclPrefixes : StartsWith(BareName(path), prefix)
  \/ \E pattern \in ExclPatterns :
       fnmatch(BareName(path), pattern) \/ fnmatch(path, pattern)

\* C27: _should_exclude excludes a file by a directory rule only when one
\* of the directories of its path is named as an excluded directory; and
\* _should_exclude and file_utils.should_exclude_file decide alike on every
\* path under the same rules, the reviewer's configuration file apart.
C27_DirectoryRuleIsOnComponents ==
  exclOut # <<>> =>
    \A i \in DOMAIN exclIn :
      ~IsReviewerConfig(exclIn[i]) =>
        /\ (exclOut[i] /\ ~MatchesFileRule(exclIn[i]))
             => DirectoriesOf(exclIn[i]) \cap ExclDirectories # {}
        /\ exclOut[i] = exclUtil[i]

\* ------------------------------------------------------------------------
\* The claim on the comments of a run (Spec, SpecCollide)
\* ------------------------------------------------------------------------

\* The files of the changeset the run reviews: neither excluded nor skipped.
ReviewedPaths ==
  {changes[i].filepath : i \in {j \in DOMAIN changes : ~Filtered(changes[j])}}

\* The comments the run took from the last answer of review_batch.
TakenFromAnswer == SubSeq(all_comments, answered.before + 1, Len(all_comments))
ChunkPaths == {answered.chunk[i].filepath : i \in DOMAIN answered.chunk}

\* C28: every comment posted in a run carries the filepath of a file of
\* the changeset that was neither excluded nor skipped; a comment the AI
\* returns for a batch under a filepath that is not of the batch is
\* discarded (neither cached nor posted); and stats.total_comments is the
\* number of comments passed to post_comments.
C28_PostedCommentsAreOfReviewedFiles ==
  /\ pc \in {"post", "summary", "returned"} =>
       /\ \A i \in DOMAIN all_comments : all_comments[i].filepath \in ReviewedPaths
       /\ stats.total_comments = Len(all_comments)
  /\ answered.tag = "some" =>
       /\ \A i \in DOMAIN TakenFromAnswer : TakenFromAnswer[i].filepath \in ChunkPaths
       /\ Len(TakenFromAnswer)
            = Len(SelectSeq(answered.comments, LAMBDA c : c.filepath \in ChunkPaths))
       /\ \A i \in DOMAIN answered.chunk :
            LET kept == ReviewedAt(reviewed, answered.chunk[i].cache_key).comments IN
            \A j \in DOMAIN kept : kept[j].filepath = answered.chunk[i].filepath

\* ------------------------------------------------------------------------
\* Two invocations on one cache directory
\* ------------------------------------------------------------------------

\* C29: with two invocations on one cache directory, get and clear_expired
\* never raise when the other invocation deletes or rewrites the entry
\* meanwhile: a get returns None or a payload, a clear_expired a count.
C29_GetAndClearExpiredNeverRaiseUnderARace ==
  \A i \in Invocations :
    /\ r_out[i].op \in {"get", "clear_expired"} => r_out[i].exc = "none"
    /\ r_out[i].op = "get" => r_out[i].ret.tag \in {"none", "value"}
    /\ r_out[i].op = "clear_expired" => r_out[i].removed \in Nat

\* C30: once a set on the key has completed, and until the entry expires or
\* is cleared, a get that returns gives the payload of that set or of a
\* later one; and no get returns as a hit a payload that was never set.
C30_CompletedSetIsReadBack ==
  \A i \in Invocations :
    (r_out[i].op = "get" /\ r_out[i].exc = "none") =>
      /\ r_out[i].after # {} => r_out[i].ret \in {Some(p) : p \in r_out[i].after}
      /\ r_out[i].ret.tag = "value" => r_out[i].ret.items \in RacePayloads
====
